---- MODULE Spec2Model ----
(***************************************************************************)
(* TrustUp contracts: the Liquidity Pool accounting engine                 *)
(* (contracts/liquidity-pool-contract/src/lib.rs), the Credit Line loan    *)
(* lifecycle (contracts/creditline-contract), the Reputation oracle        *)
(* (contracts/reputation-contract) and the Merchant Registry               *)
(* (contracts/merchant-registry-contract/src/lib.rs) as state machines.    *)
(* One action per contract entry point; a failed invocation is rolled back *)
(* by the host, so it leaves every variable but `last` unchanged.          *)
(***************************************************************************)
EXTENDS Integers, FiniteSets, Sequences, TLC

VARIABLES
    admin,              \* instance storage ADMIN    (None until initialize)
    token,              \* instance storage TOKEN    (None until initialize)
    treasury,           \* instance storage TREASURY (Option<Address>)
    merchant_fund,      \* instance storage MRCHFND  (Option<Address>)
    creditline,         \* instance storage CRDTLIN  (Option<Address>)
    total_shares,       \* instance storage TOTSHRS
    total_liquidity,    \* instance storage TOTLIQ
    locked_liquidity,   \* instance storage LCKDLIQ
    lp_shares,          \* persistent storage (LPSHRS, provider) -> i128
    balances,           \* the token contract's balance of every holder
    net_deposits,       \* history: amounts deposited minus amounts returned
    last,               \* the last invocation: entry point, arguments, outcome
    \* the Credit Line contract
    loan_counter,       \* instance storage: the last loan id allocated
    loans,              \* persistent storage: loan id -> Loan
    now,                \* the ledger timestamp
    cl_last,            \* the last Credit Line invocation and its outcome
    \* the Reputation contract
    rep_admin,          \* the stored admin (None until the first set_admin)
    updaters,           \* the addresses holding the updater role
    scores,             \* user -> score, for the users that were scored
    rep_last,           \* the last Reputation invocation and its outcome
    \* the Merchant Registry contract
    mr_admin,           \* instance storage Admin (None until initialize)
    merchants,          \* persistent storage Merchant(address) -> MerchantInfo
    merchant_count,     \* persistent storage MerchantCount
    mr_last,            \* the last Merchant Registry invocation and its outcome
    \* the guarantee check of create_loan, taken alone
    guarantee_check     \* the amounts presented and what each form of the check says

vars == <<admin, token, treasury, merchant_fund, creditline, total_shares,
          total_liquidity, locked_liquidity, lp_shares, balances,
          net_deposits, last,
          loan_counter, loans, now, cl_last,
          rep_admin, updaters, scores, rep_last,
          mr_admin, merchants, merchant_count, mr_last,
          guarantee_check>>

\* the Liquidity Pool's variables
pool_vars == <<admin, token, treasury, merchant_fund, creditline, total_shares,
               total_liquidity, locked_liquidity, lp_shares, balances,
               net_deposits, last>>

\* the Credit Line's variables
cl_vars == <<loan_counter, loans, now, cl_last>>

\* the Reputation contract's variables
rep_vars == <<rep_admin, updaters, scores, rep_last>>

\* the Merchant Registry's variables
mr_vars == <<mr_admin, merchants, merchant_count, mr_last>>

\* the variables of the guarantee check taken alone
fn_vars == <<guarantee_check>>

storage == <<admin, token, treasury, merchant_fund, creditline, total_shares,
             total_liquidity, locked_liquidity, lp_shares, balances,
             net_deposits>>

config == <<admin, token, treasury, merchant_fund, creditline>>

----------------------------------------------------------------------------
(* Bounds of the model *)

\* i128::MAX, scaled down to the width of TLC's integers
I128_MAX == 536870911

\* largest amount, share count or principal passed to an entry point
MaxAmount == 2

\* most loans created
MaxLoans == 2

----------------------------------------------------------------------------
(* Addresses *)

None == "none"

POOL == "pool"

Providers == {"lp1", "lp2"}

ADMIN == "admin"

TOKEN == "token"

TREASURY == "treasury"

MERCHANT_FUND == "merchant_fund"

CREDITLINE == "creditline"

MERCHANT == "merchant"

\* addresses named as admin, or presenting themselves as admin
AdminArgs == {ADMIN, "admin2"}

\* addresses named as token
TokenArgs == {TOKEN, "token2"}

\* addresses named as treasury or merchant fund
FeeRecipients == {TREASURY, MERCHANT_FUND}

\* addresses a caller may present as the credit line
CreditlineArgs == {CREDITLINE, "lp1"}

Holders == Providers \cup {POOL, TREASURY, MERCHANT_FUND, CREDITLINE, MERCHANT}

Amounts == -1 .. MaxAmount

Principals == -1 .. MaxAmount

\* interest amounts passed to distribute_interest
InterestAmounts == {0, 2, 10}

\* interest amounts passed to receive_repayment
RepaymentInterests == {-1, 0, 1, 2}

----------------------------------------------------------------------------
(* types.rs *)

LP_FEE_BPS == 8500

PROTOCOL_FEE_BPS == 1000

MERCHANT_FEE_BPS == 500

TOTAL_BPS == 10000

----------------------------------------------------------------------------
(* Checked i128 arithmetic: Fits(x) is `Some`, ~Fits(x) is `None` *)

Fits(x) == x >= -I128_MAX - 1 /\ x <= I128_MAX

Abs(x) == IF x >= 0 THEN x ELSE -x

\* Rust integer division truncates toward zero
TruncDiv(a, b) ==
    IF (a >= 0) = (b > 0) \/ a = 0
    THEN Abs(a) \div Abs(b)
    ELSE -(Abs(a) \div Abs(b))

\* a.checked_mul(b) is Some, decided without computing a product out of range
MulFits(a, b) ==
    \/ a = 0
    \/ b = 0
    \/ IF (a > 0) = (b > 0)
       THEN Abs(a) <= I128_MAX \div Abs(b)
       ELSE Abs(a) <= (I128_MAX + 1) \div Abs(b)

\* a.checked_mul(b).and_then(|v| v.checked_div(c)) is Some
MulDivFits(a, b, c) == MulFits(a, b) /\ c # 0 /\ Fits(TruncDiv(a * b, c))

MulDiv(a, b, c) == TruncDiv(a * b, c)

Min(a, b) == IF a <= b THEN a ELSE b

----------------------------------------------------------------------------
(* The token contract (SEP-41 transfer) *)

\* transfer(from, to, amount) succeeds
CanTransfer(bal, from, amount) == amount >= 0 /\ bal[from] >= amount

Transfer(bal, from, to, amount) ==
    [h \in Holders |->
        bal[h] - (IF h = from THEN amount ELSE 0) + (IF h = to THEN amount ELSE 0)]

----------------------------------------------------------------------------------------------------------------------------------------
(* The record of an invocation.  A successful invocation is recorded with   *)
(* its arguments and return value, a failed one with its entry point and    *)
(* error only.                                                              *)

Outcome(op, addr, a, b, err, ret) ==
    IF err = "Ok"
    THEN [op |-> op, addr |-> addr, a |-> a, b |-> b, err |-> err, ret |-> ret]
    ELSE [op |-> op, addr |-> None, a |-> 0, b |-> 0, err |-> err, ret |-> 0]

\* mutant: the writes made before a failure stay
CommittedPartial(err, written, before) == written

\* What an invocation leaves of a storage entry or of the token balances: what it
\* had written when it ended if it returned, and what was there before it if it
\* panicked (the host discards the writes of a failed invocation).
Committed(err, written, before) == IF err = "Ok" THEN written ELSE before

\* the tokens minted to each holder before the pool is used: the first provider
\* owns two, the second one, the credit line two
InitialBalance(h) ==
    IF h = "lp1" THEN 2
    ELSE IF h = "lp2" THEN 1
    ELSE IF h = CREDITLINE THEN 2
    ELSE 0

\* The Credit Line as TestCtx::setup leaves it: initialized, wired to the
\* Reputation oracle, no loan created, the ledger at timestamp 0.
CreditLineInit ==
    /\ loan_counter = 0
    /\ loans = << >>
    /\ now = 0
    /\ cl_last = [op |-> "none", id |-> 0, err |-> "Ok", queried |-> FALSE,
                  slashed |-> None]

\* the Reputation contract as registered: no admin, no updater, nobody scored
ReputationInit ==
    /\ rep_admin = None
    /\ updaters = {}
    /\ scores = << >>
    /\ rep_last = [op |-> "none", caller |-> None, user |-> None, arg |-> 0,
                   err |-> "Ok"]

\* the Merchant Registry as registered: not initialized, no merchant
RegistryInit ==
    /\ mr_admin = None
    /\ merchants = << >>
    /\ merchant_count = 0
    /\ mr_last = [op |-> "none", merchant |-> None, err |-> "Ok"]

\* no guarantee check was asked for
NoGuaranteeCheck ==
    [total_amount |-> 0, guarantee_amount |-> 0, asked |-> FALSE,
     by_product |-> FALSE, by_floor |-> FALSE]

\* the four contracts after construction
ContractsInit ==
    /\ CreditLineInit
    /\ ReputationInit
    /\ RegistryInit
    /\ admin = None
    /\ token = None
    /\ treasury = None
    /\ merchant_fund = None
    /\ creditline = None
    /\ total_shares = 0
    /\ total_liquidity = 0
    /\ locked_liquidity = 0
    /\ lp_shares = [p \in Providers |-> 0]
    /\ balances = [h \in Holders |-> InitialBalance(h)]
    /\ net_deposits = 0
    /\ last = Outcome("none", None, 0, 0, "Ok", 0)

Init == ContractsInit /\ guarantee_check = NoGuaranteeCheck

----------------------------------------------------------------------------
(* Initialization and admin setters.  `auth` tells whether the host finds   *)
(* the authorization that require_auth asks for.                            *)

\* mutant: initialize does not look for a stored admin
InitializeErrUnguarded(auth) ==
    IF ~auth THEN "AuthFailed" ELSE "Ok"

InitializeErr(auth) ==
    IF admin # None THEN "AlreadyInitialized"
    ELSE IF ~auth THEN "AuthFailed"
    ELSE "Ok"

\* initialize(admin, token, treasury, merchant_fund)
Initialize(auth, a, t, tr, mf) ==
    LET err == InitializeErr(auth)
    IN  /\ IF err = "Ok"
           THEN /\ admin' = a
                /\ token' = t
                /\ treasury' = tr
                /\ merchant_fund' = mf
           ELSE UNCHANGED <<admin, token, treasury, merchant_fund>>
        /\ UNCHANGED <<creditline, total_shares, total_liquidity, locked_liquidity,
                       lp_shares, balances, net_deposits>>
        /\ last' = Outcome("initialize", a, 0, 0, err, 0)

\* mutant: the caller is not compared with the stored admin
RequireAdminAnyCaller(caller) ==
    IF admin = None THEN "NotInitialized" ELSE "Ok"

\* require_admin(env, caller)
RequireAdmin(caller) ==
    IF admin = None THEN "NotInitialized"
    ELSE IF admin # caller THEN "NotAdmin"
    ELSE "Ok"

SetCreditlineErr(auth, caller) ==
    IF ~auth THEN "AuthFailed" ELSE RequireAdmin(caller)

\* set_creditline(admin, creditline)
SetCreditline(auth, caller, cl) ==
    LET err == SetCreditlineErr(auth, caller)
    IN  /\ creditline' = IF err = "Ok" THEN cl ELSE creditline
        /\ UNCHANGED <<admin, token, treasury, merchant_fund, total_shares,
                       total_liquidity, locked_liquidity, lp_shares, balances,
                       net_deposits>>
        /\ last' = Outcome("set_creditline", caller, 0, 0, err, 0)

SetTreasuryErr(auth, caller) ==
    IF ~auth THEN "AuthFailed" ELSE RequireAdmin(caller)

\* set_treasury(admin, treasury)
SetTreasury(auth, caller, tr) ==
    LET err == SetTreasuryErr(auth, caller)
    IN  /\ treasury' = IF err = "Ok" THEN tr ELSE treasury
        /\ UNCHANGED <<admin, token, merchant_fund, creditline, total_shares,
                       total_liquidity, locked_liquidity, lp_shares, balances,
                       net_deposits>>
        /\ last' = Outcome("set_treasury", caller, 0, 0, err, 0)

SetMerchantFundErr(auth, caller) ==
    IF ~auth THEN "AuthFailed" ELSE RequireAdmin(caller)

\* set_merchant_fund(admin, merchant_fund)
SetMerchantFund(auth, caller, mf) ==
    LET err == SetMerchantFundErr(auth, caller)
    IN  /\ merchant_fund' = IF err = "Ok" THEN mf ELSE merchant_fund
        /\ UNCHANGED <<admin, token, treasury, creditline, total_shares,
                       total_liquidity, locked_liquidity, lp_shares, balances,
                       net_deposits>>
        /\ last' = Outcome("set_merchant_fund", caller, 0, 0, err, 0)

\* set_admin: the authorization asked for is that of the stored admin
SetAdminErr(auth) ==
    IF admin = None THEN "NotInitialized"
    ELSE IF ~auth THEN "AuthFailed"
    ELSE RequireAdmin(admin)

\* set_admin(new_admin); the invocation is recorded with the admin it replaced
SetAdmin(auth, new_admin) ==
    LET err == SetAdminErr(auth)
    IN  /\ admin' = IF err = "Ok" THEN new_admin ELSE admin
        /\ UNCHANGED <<token, treasury, merchant_fund, creditline, total_shares,
                       total_liquidity, locked_liquidity, lp_shares, balances,
                       net_deposits>>
        /\ last' = Outcome("set_admin", admin, 0, 0, err, 0)

\* mutant: any caller is accepted once a credit line is registered
RequireCreditlineAnyCaller(caller) ==
    IF creditline = None THEN "NotCreditLine" ELSE "Ok"

\* require_creditline(env, caller)
RequireCreditline(caller) ==
    IF creditline = None THEN "NotCreditLine"
    ELSE IF creditline # caller THEN "NotCreditLine"
    ELSE "Ok"

----------------------------------------------------------------------------
(* LP operations *)

\* mutant: the shares issued are rounded up
SharesIssuedRoundedUp(amount, ts, tl) ==
    IF ts = 0 \/ tl = 0 THEN amount ELSE (amount * ts + tl - 1) \div tl

\* deposit: the shares to issue (lib.rs 101-110), given that the division is Some
SharesIssued(amount, ts, tl) ==
    IF ts = 0 \/ tl = 0 THEN amount ELSE MulDiv(amount, ts, tl)

SharesIssuedFits(amount, ts, tl) ==
    ts = 0 \/ tl = 0 \/ MulDivFits(amount, ts, tl)

\* deposit: the new share balance, share total and pool value
DepositProviderShares(held, shares_issued) == held + shares_issued

DepositTotalShares(ts, shares_issued) == ts + shares_issued

\* mutant: the deposit replaces the pool value instead of adding to it
DepositTotalLiquidityOverwrite(tl, amount) == amount

DepositTotalLiquidity(tl, amount) == tl + amount

\* deposit: the outcome of the checks, in the order of the code
DepositErr(auth, provider, amount) ==
    LET shares_issued == SharesIssued(amount, total_shares, total_liquidity)
    IN  IF ~auth THEN "AuthFailed"
        ELSE IF amount <= 0 THEN "InvalidAmount"
        ELSE IF token = None THEN "NotInitialized"
        ELSE IF ~SharesIssuedFits(amount, total_shares, total_liquidity) THEN "Overflow"
        ELSE IF shares_issued <= 0 THEN "InvalidAmount"
        ELSE IF ~CanTransfer(balances, provider, amount) THEN "TokenError"
        ELSE IF ~Fits(DepositProviderShares(lp_shares[provider], shares_issued))
             THEN "Overflow"
        ELSE IF ~Fits(DepositTotalShares(total_shares, shares_issued)) THEN "Overflow"
        ELSE IF ~Fits(DepositTotalLiquidity(total_liquidity, amount)) THEN "Overflow"
        ELSE "Ok"

\* deposit: how many of its effects were made when the invocation ended: the token
\* transfer (lib.rs 118), then the writes of lp_shares, total_shares and
\* total_liquidity (lib.rs 124, 129, 134)
DepositWrites(auth, provider, amount) ==
    LET shares_issued == SharesIssued(amount, total_shares, total_liquidity)
        transferred == /\ auth
                       /\ amount > 0
                       /\ token # None
                       /\ SharesIssuedFits(amount, total_shares, total_liquidity)
                       /\ shares_issued > 0
                       /\ CanTransfer(balances, provider, amount)
    IN  IF ~transferred THEN 0
        ELSE IF ~Fits(DepositProviderShares(lp_shares[provider], shares_issued)) THEN 1
        ELSE IF ~Fits(DepositTotalShares(total_shares, shares_issued)) THEN 2
        ELSE IF ~Fits(DepositTotalLiquidity(total_liquidity, amount)) THEN 3
        ELSE 4

\* deposit(provider, amount) -> shares_issued
Deposit(auth, provider, amount) ==
    LET shares_issued == SharesIssued(amount, total_shares, total_liquidity)
        err == DepositErr(auth, provider, amount)
        writes == DepositWrites(auth, provider, amount)
    IN  /\ balances' =
               Committed(err,
                         IF writes >= 1
                         THEN Transfer(balances, provider, POOL, amount)
                         ELSE balances,
                         balances)
        /\ lp_shares' =
               Committed(err,
                         IF writes >= 2
                         THEN [lp_shares EXCEPT ![provider] =
                                  DepositProviderShares(@, shares_issued)]
                         ELSE lp_shares,
                         lp_shares)
        /\ total_shares' =
               Committed(err,
                         IF writes >= 3
                         THEN DepositTotalShares(total_shares, shares_issued)
                         ELSE total_shares,
                         total_shares)
        /\ total_liquidity' =
               Committed(err,
                         IF writes >= 4
                         THEN DepositTotalLiquidity(total_liquidity, amount)
                         ELSE total_liquidity,
                         total_liquidity)
        /\ net_deposits' = IF err = "Ok" THEN net_deposits + amount ELSE net_deposits
        /\ UNCHANGED <<config, locked_liquidity>>
        /\ last' = Outcome("deposit", provider, amount, 0, err, shares_issued)

\* mutant: locked liquidity counts as available
AvailableIgnoringLocked(tl, locked) == tl

\* available liquidity (lib.rs 165-167, 221-223)
Available(tl, locked) == tl - locked

\* withdraw: the amount to return (lib.rs 170-173), given that the division is Some
AmountReturned(shares, tl, ts) == MulDiv(shares, tl, ts)

\* mutant: the provider keeps the burnt shares
WithdrawProviderSharesKept(held, shares) == held

\* withdraw: the new share balance, share total and pool value
WithdrawProviderShares(held, shares) == held - shares

\* mutant: the burnt shares are not taken from the total
WithdrawTotalSharesStale(ts, shares) == ts

WithdrawTotalShares(ts, shares) == ts - shares

\* mutant: the amount returned is not taken from the pool value
WithdrawTotalLiquidityStale(tl, amount_returned) == tl

WithdrawTotalLiquidity(tl, amount_returned) == tl - amount_returned

\* withdraw: the liquidity check (lib.rs 175)
ExceedsAvailable(amount, available) == amount > available

\* mutant: the liquidity check runs before the share balance check
WithdrawErrLiquidityFirst(auth, provider, shares) ==
    LET provider_shares == lp_shares[provider]
        available_liquidity == Available(total_liquidity, locked_liquidity)
        amount_returned == AmountReturned(shares, total_liquidity, total_shares)
    IN  IF ~auth THEN "AuthFailed"
        ELSE IF shares <= 0 THEN "InvalidAmount"
        ELSE IF total_shares = 0 THEN "ZeroTotalShares"
        ELSE IF ExceedsAvailable(amount_returned, available_liquidity)
             THEN "InsufficientLiquidity"
        ELSE IF provider_shares < shares THEN "InsufficientShares"
        ELSE IF token = None THEN "NotInitialized"
        ELSE IF ~CanTransfer(balances, POOL, amount_returned) THEN "TokenError"
        ELSE "Ok"

\* withdraw: the outcome of the checks, in the order of the code
WithdrawErr(auth, provider, shares) ==
    LET provider_shares == lp_shares[provider]
        available_liquidity == Available(total_liquidity, locked_liquidity)
        amount_returned == AmountReturned(shares, total_liquidity, total_shares)
    IN  IF ~auth THEN "AuthFailed"
        ELSE IF shares <= 0 THEN "InvalidAmount"
        ELSE IF provider_shares < shares THEN "InsufficientShares"
        ELSE IF total_shares = 0 THEN "ZeroTotalShares"
        ELSE IF ~Fits(available_liquidity) THEN "Underflow"
        ELSE IF ~MulDivFits(shares, total_liquidity, total_shares) THEN "Overflow"
        ELSE IF ExceedsAvailable(amount_returned, available_liquidity)
             THEN "InsufficientLiquidity"
        ELSE IF ~Fits(WithdrawProviderShares(provider_shares, shares)) THEN "Underflow"
        ELSE IF ~Fits(WithdrawTotalShares(total_shares, shares)) THEN "Underflow"
        ELSE IF ~Fits(WithdrawTotalLiquidity(total_liquidity, amount_returned))
             THEN "Underflow"
        ELSE IF token = None THEN "NotInitialized"
        ELSE IF ~CanTransfer(balances, POOL, amount_returned) THEN "TokenError"
        ELSE "Ok"

\* withdraw: how many of its three storage writes (lib.rs 183, 188, 193) were made
\* when the invocation ended; the token is looked up and the transfer made after them
WithdrawWrites(auth, provider, shares) ==
    LET err == WithdrawErr(auth, provider, shares)
        amount_returned == AmountReturned(shares, total_liquidity, total_shares)
        passed == /\ auth
                  /\ shares > 0
                  /\ lp_shares[provider] >= shares
                  /\ total_shares # 0
                  /\ Fits(Available(total_liquidity, locked_liquidity))
                  /\ MulDivFits(shares, total_liquidity, total_shares)
    IN  IF err \in {"Ok", "NotInitialized", "TokenError"} THEN 3
        ELSE IF err # "Underflow" \/ ~passed THEN 0
        ELSE IF ~Fits(WithdrawProviderShares(lp_shares[provider], shares)) THEN 0
        ELSE IF ~Fits(WithdrawTotalShares(total_shares, shares)) THEN 1
        ELSE 2

\* withdraw(provider, shares) -> amount_returned
Withdraw(auth, provider, shares) ==
    LET err == WithdrawErr(auth, provider, shares)
        writes == WithdrawWrites(auth, provider, shares)
        amount_returned == IF writes > 0
                           THEN AmountReturned(shares, total_liquidity, total_shares)
                           ELSE 0
    IN  /\ lp_shares' =
               Committed(err,
                         IF writes >= 1
                         THEN [lp_shares EXCEPT ![provider] =
                                  WithdrawProviderShares(@, shares)]
                         ELSE lp_shares,
                         lp_shares)
        /\ total_shares' =
               Committed(err,
                         IF writes >= 2
                         THEN WithdrawTotalShares(total_shares, shares)
                         ELSE total_shares,
                         total_shares)
        /\ total_liquidity' =
               Committed(err,
                         IF writes >= 3
                         THEN WithdrawTotalLiquidity(total_liquidity, amount_returned)
                         ELSE total_liquidity,
                         total_liquidity)
        /\ balances' =
               Committed(err,
                         IF err = "Ok"
                         THEN Transfer(balances, POOL, provider, amount_returned)
                         ELSE balances,
                         balances)
        /\ net_deposits' =
               IF err = "Ok" THEN net_deposits - amount_returned ELSE net_deposits
        /\ UNCHANGED <<config, locked_liquidity>>
        /\ last' = Outcome("withdraw", provider, shares, 0, err,
                           IF err = "Ok" THEN amount_returned ELSE 0)

----------------------------------------------------------------------------
(* Credit line operations *)

\* mutant: the loan replaces the locked liquidity instead of adding to it
FundLoanLockedOverwrite(locked, amount) == amount

\* fund_loan: the new locked liquidity (lib.rs 234-237)
FundLoanLocked(locked, amount) == locked + amount

\* fund_loan: the outcome of the checks, in the order of the code
FundLoanErr(auth, cl, amount) ==
    LET available == Available(total_liquidity, locked_liquidity)
    IN  IF ~auth THEN "AuthFailed"
        ELSE IF RequireCreditline(cl) # "Ok" THEN RequireCreditline(cl)
        ELSE IF amount <= 0 THEN "InvalidAmount"
        ELSE IF ~Fits(available) THEN "Underflow"
        ELSE IF amount > available THEN "InsufficientLiquidity"
        ELSE IF token = None THEN "NotInitialized"
        ELSE IF ~CanTransfer(balances, POOL, amount) THEN "TokenError"
        ELSE IF ~Fits(FundLoanLocked(locked_liquidity, amount)) THEN "Overflow"
        ELSE "Ok"

\* fund_loan: how many of its effects were made when the invocation ended: the
\* token transfer (lib.rs 231), then the write of locked_liquidity (lib.rs 237)
FundLoanWrites(auth, cl, amount) ==
    LET err == FundLoanErr(auth, cl, amount)
    IN  IF err = "Ok" THEN 2
        ELSE IF err = "Overflow" THEN 1
        ELSE 0

\* fund_loan(creditline, merchant, amount)
FundLoan(auth, cl, merchant, amount) ==
    LET err == FundLoanErr(auth, cl, amount)
        writes == FundLoanWrites(auth, cl, amount)
    IN  /\ balances' =
               Committed(err,
                         IF writes >= 1
                         THEN Transfer(balances, POOL, merchant, amount)
                         ELSE balances,
                         balances)
        /\ locked_liquidity' =
               Committed(err,
                         IF writes >= 2
                         THEN FundLoanLocked(locked_liquidity, amount)
                         ELSE locked_liquidity,
                         locked_liquidity)
        /\ UNCHANGED <<config, total_shares, total_liquidity, lp_shares, net_deposits>>
        /\ last' = Outcome("fund_loan", cl, amount, 0, err, 0)

----------------------------------------------------------------------------
(* Interest distribution *)

\* mutant: the LP portion is what the two fees leave, so it takes the rounding dust
LpAmountWithRemainder(interest_amount) ==
    interest_amount - MulDiv(interest_amount, PROTOCOL_FEE_BPS, TOTAL_BPS)
                    - MulDiv(interest_amount, MERCHANT_FEE_BPS, TOTAL_BPS)

\* 85% stays in the pool (lib.rs 347-350)
LpAmount(interest_amount) == MulDiv(interest_amount, LP_FEE_BPS, TOTAL_BPS)

\* 10% to the treasury (lib.rs 353-356)
ProtocolAmount(interest_amount) == MulDiv(interest_amount, PROTOCOL_FEE_BPS, TOTAL_BPS)

\* mutant: the merchant incentive is computed from its own rate, dropping the dust
MerchantAmountByBps(interest_amount) ==
    MulDiv(interest_amount, MERCHANT_FEE_BPS, TOTAL_BPS)

\* the remainder to the merchant fund (lib.rs 359-362)
MerchantAmount(interest_amount) ==
    interest_amount - LpAmount(interest_amount) - ProtocolAmount(interest_amount)

\* the pool value after the LP portion is added (lib.rs 393-397)
InterestTotalLiquidity(tl, lp_amount) == tl + lp_amount

\* balances after the protocol fee went to the treasury, if one is configured
AfterProtocolFee(bal, protocol_amount) ==
    IF protocol_amount > 0 /\ treasury # None
    THEN Transfer(bal, POOL, treasury, protocol_amount)
    ELSE bal

\* balances after the merchant incentive went to the merchant fund, if configured
AfterMerchantFee(bal, merchant_amount) ==
    IF merchant_amount > 0 /\ merchant_fund # None
    THEN Transfer(bal, POOL, merchant_fund, merchant_amount)
    ELSE bal

\* distribute_interest run on pool value tl and token balances bal: the outcome
\* of its checks, in the order of the code
DistributeInterestErr(tl, bal, interest_amount) ==
    LET protocol_amount == ProtocolAmount(interest_amount)
        merchant_amount == MerchantAmount(interest_amount)
    IN  IF interest_amount <= 0 THEN "InvalidAmount"
        ELSE IF ~MulDivFits(interest_amount, LP_FEE_BPS, TOTAL_BPS) THEN "Overflow"
        ELSE IF ~MulDivFits(interest_amount, PROTOCOL_FEE_BPS, TOTAL_BPS) THEN "Overflow"
        ELSE IF ~Fits(merchant_amount) THEN "Underflow"
        ELSE IF token = None THEN "NotInitialized"
        ELSE IF protocol_amount > 0 /\ treasury # None
                /\ ~CanTransfer(bal, POOL, protocol_amount)
             THEN "TokenError"
        ELSE IF merchant_amount > 0 /\ merchant_fund # None
                /\ ~CanTransfer(AfterProtocolFee(bal, protocol_amount), POOL,
                                merchant_amount)
             THEN "TokenError"
        ELSE IF ~Fits(InterestTotalLiquidity(tl, LpAmount(interest_amount)))
             THEN "Overflow"
        ELSE "Ok"

\* the pool value and the balances a successful distribute_interest leaves
DistributedLiquidity(tl, interest_amount) ==
    InterestTotalLiquidity(tl, LpAmount(interest_amount))

DistributedBalances(bal, interest_amount) ==
    AfterMerchantFee(AfterProtocolFee(bal, ProtocolAmount(interest_amount)),
                     MerchantAmount(interest_amount))

\* distribute_interest run on pool value tl and token balances bal: the token
\* balances when it ended.  The transfer to the treasury (lib.rs 368-377) comes
\* before the transfer to the merchant fund (lib.rs 380-389), and both before the
\* addition to total_liquidity (lib.rs 393-397), the only storage write.
InterestBalancesAtExit(tl, bal, interest_amount) ==
    LET err == DistributeInterestErr(tl, bal, interest_amount)
        split == /\ interest_amount > 0
                 /\ MulDivFits(interest_amount, LP_FEE_BPS, TOTAL_BPS)
                 /\ MulDivFits(interest_amount, PROTOCOL_FEE_BPS, TOTAL_BPS)
                 /\ Fits(MerchantAmount(interest_amount))
                 /\ token # None
        protocol_refused ==
                 /\ ProtocolAmount(interest_amount) > 0
                 /\ treasury # None
                 /\ ~CanTransfer(bal, POOL, ProtocolAmount(interest_amount))
    IN  IF err = "Ok" THEN DistributedBalances(bal, interest_amount)
        ELSE IF ~split THEN bal
        ELSE IF protocol_refused THEN bal
        ELSE IF err = "TokenError"
             THEN AfterProtocolFee(bal, ProtocolAmount(interest_amount))
        ELSE DistributedBalances(bal, interest_amount)

\* distribute_interest(interest_amount), invoked directly
DistributeInterest(interest_amount) ==
    LET err == DistributeInterestErr(total_liquidity, balances, interest_amount)
    IN  /\ total_liquidity' =
               Committed(err,
                         IF err = "Ok"
                         THEN DistributedLiquidity(total_liquidity, interest_amount)
                         ELSE total_liquidity,
                         total_liquidity)
        /\ balances' =
               Committed(err,
                         InterestBalancesAtExit(total_liquidity, balances,
                                                interest_amount),
                         balances)
        /\ UNCHANGED <<config, total_shares, locked_liquidity, lp_shares, net_deposits>>
        /\ last' = Outcome("distribute_interest", None, interest_amount, 0, err, 0)

----------------------------------------------------------------------------
(* Repayment and guarantee *)

\* receive_repayment: the new locked liquidity (lib.rs 273-277)
RepaymentLocked(locked, principal) == locked - principal

\* mutant: the returned principal is not added to the pool value
RepaymentTotalLiquidityStale(tl, principal) == tl

\* receive_repayment: the pool value after the principal returned (lib.rs 280-284)
RepaymentTotalLiquidity(tl, principal) == tl + principal

\* receive_repayment: the outcome of the checks, in the order of the code
ReceiveRepaymentErr(auth, cl, principal, interest) ==
    LET total == principal + interest
    IN  IF ~auth THEN "AuthFailed"
        ELSE IF RequireCreditline(cl) # "Ok" THEN RequireCreditline(cl)
        ELSE IF principal < 0 \/ interest < 0 THEN "InvalidAmount"
        ELSE IF ~Fits(total) THEN "Overflow"
        ELSE IF total <= 0 THEN "InvalidAmount"
        ELSE IF token = None THEN "NotInitialized"
        ELSE IF ~CanTransfer(balances, cl, total) THEN "TokenError"
        ELSE IF ~Fits(RepaymentLocked(locked_liquidity, principal)) THEN "Underflow"
        ELSE IF ~Fits(RepaymentTotalLiquidity(total_liquidity, principal))
             THEN "Overflow"
        ELSE IF interest > 0
             THEN DistributeInterestErr(
                      RepaymentTotalLiquidity(total_liquidity, principal),
                      Transfer(balances, cl, POOL, total), interest)
        ELSE "Ok"

\* receive_repayment: how many of its own effects were made when the invocation
\* ended: the token transfer (lib.rs 268), then the writes of locked_liquidity
\* (lib.rs 277) and of total_liquidity (lib.rs 284); the interest is distributed
\* after all three
RepaymentWrites(auth, cl, principal, interest) ==
    LET total == principal + interest
        transferred == /\ auth
                       /\ RequireCreditline(cl) = "Ok"
                       /\ principal >= 0
                       /\ interest >= 0
                       /\ Fits(total)
                       /\ total > 0
                       /\ token # None
                       /\ CanTransfer(balances, cl, total)
    IN  IF ~transferred THEN 0
        ELSE IF ~Fits(RepaymentLocked(locked_liquidity, principal)) THEN 1
        ELSE IF ~Fits(RepaymentTotalLiquidity(total_liquidity, principal)) THEN 2
        ELSE 3

\* receive_repayment(creditline, principal, interest)
ReceiveRepayment(auth, cl, principal, interest) ==
    LET err == ReceiveRepaymentErr(auth, cl, principal, interest)
        writes == RepaymentWrites(auth, cl, principal, interest)
        after_principal == RepaymentTotalLiquidity(total_liquidity, principal)
        received == Transfer(balances, cl, POOL, principal + interest)
    IN  /\ locked_liquidity' =
               Committed(err,
                         IF writes >= 2
                         THEN RepaymentLocked(locked_liquidity, principal)
                         ELSE locked_liquidity,
                         locked_liquidity)
        /\ total_liquidity' =
               Committed(err,
                         IF writes < 3 THEN total_liquidity
                         ELSE IF interest > 0 /\ err = "Ok"
                              THEN DistributedLiquidity(after_principal, interest)
                         ELSE after_principal,
                         total_liquidity)
        /\ balances' =
               Committed(err,
                         IF writes = 0 THEN balances
                         ELSE IF writes = 3 /\ interest > 0
                              THEN InterestBalancesAtExit(after_principal, received,
                                                          interest)
                         ELSE received,
                         balances)
        /\ UNCHANGED <<config, total_shares, lp_shares, net_deposits>>
        /\ last' = Outcome("receive_repayment", cl, principal, interest, err, 0)

\* mutant: the whole guarantee is booked as recovered
RecoveredWhole(amount, locked) == amount

\* receive_guarantee: the part of the guarantee that is recovered (lib.rs 312)
Recovered(amount, locked) == Min(amount, locked)

\* receive_guarantee: the outcome of the checks, in the order of the code
ReceiveGuaranteeErr(auth, cl, amount) ==
    LET recovered == Recovered(amount, locked_liquidity)
    IN  IF ~auth THEN "AuthFailed"
        ELSE IF RequireCreditline(cl) # "Ok" THEN RequireCreditline(cl)
        ELSE IF amount <= 0 THEN "InvalidAmount"
        ELSE IF token = None THEN "NotInitialized"
        ELSE IF ~CanTransfer(balances, cl, amount) THEN "TokenError"
        ELSE IF ~Fits(locked_liquidity - recovered) THEN "Underflow"
        ELSE IF ~Fits(total_liquidity + recovered) THEN "Overflow"
        ELSE "Ok"

\* receive_guarantee: how many of its effects were made when the invocation ended:
\* the token transfer (lib.rs 305), then the writes of locked_liquidity (lib.rs 316)
\* and of total_liquidity (lib.rs 322)
GuaranteeWrites(auth, cl, amount) ==
    LET err == ReceiveGuaranteeErr(auth, cl, amount)
    IN  IF err = "Ok" THEN 3
        ELSE IF err = "Overflow" THEN 2
        ELSE IF err = "Underflow" THEN 1
        ELSE 0

\* receive_guarantee(creditline, amount)
ReceiveGuarantee(auth, cl, amount) ==
    LET err == ReceiveGuaranteeErr(auth, cl, amount)
        writes == GuaranteeWrites(auth, cl, amount)
        recovered == Recovered(amount, locked_liquidity)
    IN  /\ balances' =
               Committed(err,
                         IF writes >= 1
                         THEN Transfer(balances, cl, POOL, amount)
                         ELSE balances,
                         balances)
        /\ locked_liquidity' =
               Committed(err,
                         IF writes >= 2
                         THEN locked_liquidity - recovered
                         ELSE locked_liquidity,
                         locked_liquidity)
        /\ total_liquidity' =
               Committed(err,
                         IF writes >= 3
                         THEN total_liquidity + recovered
                         ELSE total_liquidity,
                         total_liquidity)
        /\ UNCHANGED <<config, total_shares, lp_shares, net_deposits>>
        /\ last' = Outcome("receive_guarantee", cl, amount, 0, err, 0)

----------------------------------------------------------------------------
(* Queries *)

\* a.saturating_sub(b)
SaturatingSub(a, b) ==
    IF a - b > I128_MAX THEN I128_MAX
    ELSE IF a - b < -I128_MAX - 1 THEN -I128_MAX - 1
    ELSE a - b

\* mutant: an empty pool is priced like any other, at nothing
SharePriceNoDefault(tl, ts) ==
    IF ts = 0 THEN 0
    ELSE IF MulDivFits(tl, TOTAL_BPS, ts) THEN MulDiv(tl, TOTAL_BPS, ts)
    ELSE TOTAL_BPS

\* the share price in basis points (lib.rs 419-426)
SharePrice(tl, ts) ==
    IF ts = 0 THEN TOTAL_BPS
    ELSE IF MulDivFits(tl, TOTAL_BPS, ts) THEN MulDiv(tl, TOTAL_BPS, ts)
    ELSE TOTAL_BPS

\* the PoolStats returned for the current state
PoolStats ==
    [total_liquidity |-> total_liquidity,
     locked_liquidity |-> locked_liquidity,
     available_liquidity |-> SaturatingSub(total_liquidity, locked_liquidity),
     total_shares |-> total_shares,
     share_price |-> SharePrice(total_liquidity, total_shares)]

\* get_pool_stats()
GetPoolStats ==
    /\ UNCHANGED storage
    /\ last' = Outcome("get_pool_stats", None, 0, 0, "Ok", PoolStats)

\* mutant: the shares are priced at one token each
CalculateWithdrawalAtPar(shares) == shares

\* calculate_withdrawal(shares): what the shares are worth (lib.rs 442-452)
CalculateWithdrawalResult(shares) ==
    IF total_shares = 0 THEN 0
    ELSE IF MulDivFits(shares, total_liquidity, total_shares)
         THEN MulDiv(shares, total_liquidity, total_shares)
         ELSE 0

\* calculate_withdrawal(shares)
CalculateWithdrawal(shares) ==
    /\ UNCHANGED storage
    /\ last' = Outcome("calculate_withdrawal", None, shares, 0, "Ok",
                       CalculateWithdrawalResult(shares))

----------------------------------------------------------------------------
(* The Credit Line contract *)

Borrowers == {"borrower1", "borrower2"}

\* guarantee_amount must be at least this percentage of total_amount
MIN_GUARANTEE_PERCENT == 20

\* the lowest reputation score that may borrow
MIN_REPUTATION == 50

\* total_amount and guarantee_amount arguments
TotalAmounts == {-1, 0, 1000}

GuaranteeAmounts == {-1, 0, 199, 200}

\* scores the Reputation oracle may report
Scores == {49, 50, 100}

\* ledger timestamps
Times == 0 .. 2

Installment(amount, due_date) == [amount |-> amount, due_date |-> due_date]

\* repayment schedules: one installment, and two with the due dates in either order
Schedules ==
    {<<Installment(1000, 1)>>,
     <<Installment(400, 0), Installment(600, 1)>>,
     <<Installment(400, 1), Installment(600, 0)>>}

\* the record of a Credit Line invocation: the loan id it returned or was given,
\* its outcome, whether it queried the oracle's get_score, and the borrower it had
\* slashed
ClOutcome(op, id, err, queried, slashed) ==
    [op |-> op, id |-> id, err |-> err, queried |-> queried,
     slashed |-> IF err = "Ok" THEN slashed ELSE None]

\* mutant: a guarantee of exactly the minimum share is refused
GuaranteeSufficientStrict(total_amount, guarantee_amount) ==
    guarantee_amount * 100 > total_amount * MIN_GUARANTEE_PERCENT

\* validate_guarantee: the guarantee covers the minimum share of the loan
GuaranteeSufficient(total_amount, guarantee_amount) ==
    guarantee_amount * 100 >= total_amount * MIN_GUARANTEE_PERCENT

\* the other form the spec gives for the same check: the guarantee is at least the
\* minimum share of the loan, rounded down
GuaranteeAtLeastFloor(total_amount, guarantee_amount) ==
    guarantee_amount >= (total_amount * MIN_GUARANTEE_PERCENT) \div 100

\* largest total_amount and guarantee_amount presented to the check taken alone
MaxTotal == 15

MaxGuarantee == 4

\* a guarantee check not yet made
GuaranteeCase(total_amount, guarantee_amount) ==
    [total_amount |-> total_amount, guarantee_amount |-> guarantee_amount,
     asked |-> FALSE, by_product |-> FALSE, by_floor |-> FALSE]

\* positive amounts are presented to the guarantee check
GuaranteeInit ==
    /\ ContractsInit
    /\ guarantee_check \in {GuaranteeCase(t, g) : t \in 1 .. MaxTotal,
                                                g \in 1 .. MaxGuarantee}

\* the guarantee check is made, in both forms
ValidateGuarantee ==
    /\ ~guarantee_check.asked
    /\ guarantee_check' =
           [guarantee_check EXCEPT
               !.asked = TRUE,
               !.by_product = GuaranteeSufficient(guarantee_check.total_amount,
                                                  guarantee_check.guarantee_amount),
               !.by_floor = GuaranteeAtLeastFloor(guarantee_check.total_amount,
                                                  guarantee_check.guarantee_amount)]

\* create_loan: whether the oracle's get_score is called
CreateLoanQueries(total_amount, guarantee_amount) ==
    /\ total_amount > 0
    /\ guarantee_amount > 0
    /\ GuaranteeSufficient(total_amount, guarantee_amount)

\* create_loan: the outcome of the validation, in its order; score is the oracle's
\* reply to get_score(borrower)
CreateLoanErr(total_amount, guarantee_amount, score) ==
    IF total_amount <= 0 \/ guarantee_amount <= 0 THEN "InvalidAmount"
    ELSE IF ~GuaranteeSufficient(total_amount, guarantee_amount)
         THEN "InsufficientGuarantee"
    ELSE IF score < MIN_REPUTATION THEN "InsufficientReputation"
    ELSE "Ok"

\* mutant: an id is skipped
NextLoanIdSkipping(counter) == counter + 2

\* create_loan: the next loan id
NextLoanId(counter) == counter + 1

\* create_loan: the record stored
NewLoan(id, borrower, merchant, total_amount, guarantee_amount, schedule) ==
    [loan_id |-> id,
     borrower |-> borrower,
     merchant |-> merchant,
     total_amount |-> total_amount,
     guarantee_amount |-> guarantee_amount,
     remaining_balance |-> total_amount,
     repayment_schedule |-> schedule,
     status |-> "Active",
     created_at |-> now]

\* create_loan(borrower, merchant, total_amount, guarantee_amount,
\* repayment_schedule) -> loan_id
CreateLoan(borrower, merchant, total_amount, guarantee_amount, schedule, score) ==
    LET err == CreateLoanErr(total_amount, guarantee_amount, score)
        id == NextLoanId(loan_counter)
    IN  /\ IF err = "Ok"
           THEN /\ loan_counter' = id
                /\ loans' = [i \in DOMAIN loans \cup {id} |->
                                IF i = id
                                THEN NewLoan(id, borrower, merchant, total_amount,
                                             guarantee_amount, schedule)
                                ELSE loans[i]]
           ELSE UNCHANGED <<loan_counter, loans>>
        /\ UNCHANGED now
        /\ cl_last' = ClOutcome("create_loan", IF err = "Ok" THEN id ELSE 0, err,
                                CreateLoanQueries(total_amount, guarantee_amount),
                                None)

\* the due date of the last installment of a schedule
LastDueDate(schedule) == schedule[Len(schedule)].due_date

\* mutant: a loan counts as overdue at its due date
OverdueAtDueDate(time, schedule) == time >= LastDueDate(schedule)

\* mark_defaulted: the loan is past its maturity
Overdue(time, schedule) == time > LastDueDate(schedule)

\* mutant: the oracle's slash is invoked before the loan is looked at
MarkDefaultedErrSlashFirst(loan_id, slash_ok) ==
    IF ~slash_ok THEN "SlashFailed"
    ELSE IF loan_id \notin DOMAIN loans THEN "LoanNotFound"
    ELSE IF loans[loan_id].status # "Active" THEN "LoanNotActive"
    ELSE IF ~Overdue(now, loans[loan_id].repayment_schedule) THEN "LoanNotOverdue"
    ELSE "Ok"

\* mutant: the status of the loan is not checked
MarkDefaultedErrAnyStatus(loan_id, slash_ok) ==
    IF loan_id \notin DOMAIN loans THEN "LoanNotFound"
    ELSE IF ~Overdue(now, loans[loan_id].repayment_schedule) THEN "LoanNotOverdue"
    ELSE IF ~slash_ok THEN "SlashFailed"
    ELSE "Ok"

\* mark_defaulted: the outcome of the checks, in their order; slash_ok tells
\* whether the oracle's slash(borrower) returns
MarkDefaultedErr(loan_id, slash_ok) ==
    IF loan_id \notin DOMAIN loans THEN "LoanNotFound"
    ELSE IF loans[loan_id].status # "Active" THEN "LoanNotActive"
    ELSE IF ~Overdue(now, loans[loan_id].repayment_schedule) THEN "LoanNotOverdue"
    ELSE IF ~slash_ok THEN "SlashFailed"
    ELSE "Ok"

\* mutant: the default also writes off the balance
DefaultedLoanWrittenOff(loan) ==
    [loan EXCEPT !.status = "Defaulted", !.remaining_balance = 0]

\* mark_defaulted: the record after the default
DefaultedLoan(loan) == [loan EXCEPT !.status = "Defaulted"]

\* mark_defaulted(loan_id)
MarkDefaulted(loan_id, slash_ok) ==
    LET err == MarkDefaultedErr(loan_id, slash_ok)
    IN  /\ loans' = IF err = "Ok"
                    THEN [loans EXCEPT ![loan_id] = DefaultedLoan(@)]
                    ELSE loans
        /\ UNCHANGED <<loan_counter, now>>
        /\ cl_last' = ClOutcome("mark_defaulted", IF err = "Ok" THEN loan_id ELSE 0,
                                err, FALSE,
                                IF err = "Ok" THEN loans[loan_id].borrower ELSE None)

\* the ledger closes: the timestamp moves forward, no invocation is under way
AdvanceTime(time) ==
    /\ time > now
    /\ now' = time
    /\ UNCHANGED <<loan_counter, loans>>
    /\ cl_last' = ClOutcome("none", 0, "Ok", FALSE, None)

----------------------------------------------------------------------------
(* The Reputation contract *)

\* the largest score
MAX_SCORE == 100

\* addresses granted, or presenting themselves with, the updater role
UpdaterArgs == {"updater1", "updater2"}

\* scores passed to set_score
ScoreArgs == {0, 30, 50, 100, 101}

\* amounts passed to increase_score and decrease_score
ScoreAmounts == {0, 50}

\* the record of a Reputation invocation: arguments for a successful one only
RepOutcome(op, caller, user, arg, err) ==
    IF err = "Ok"
    THEN [op |-> op, caller |-> caller, user |-> user, arg |-> arg, err |-> err]
    ELSE [op |-> op, caller |-> None, user |-> None, arg |-> 0, err |-> err]

\* the error code a failed invocation panics with
RepErrorCode(err) ==
    CASE err = "NotAdmin" -> 1
      [] err = "NotUpdater" -> 2
      [] err = "OutOfBounds" -> 3
      [] err = "Overflow" -> 4
      [] err = "Underflow" -> 5
      [] OTHER -> 0

\* get_score(user): 0 for a user that was never scored
GetScore(user) == IF user \in DOMAIN scores THEN scores[user] ELSE 0

\* the stored scores with the score of user replaced
WithScore(user, score) ==
    [u \in DOMAIN scores \cup {user} |-> IF u = user THEN score ELSE scores[u]]

\* is_updater(address)
IsUpdater(address) == address \in updaters

\* set_admin(new_admin): the first call installs the admin, a later one needs
\* the authorization of the admin in place
SetRepAdminErr(auth) ==
    IF rep_admin # None /\ ~auth THEN "AuthFailed" ELSE "Ok"

SetRepAdmin(auth, new_admin) ==
    LET err == SetRepAdminErr(auth)
    IN  /\ rep_admin' = IF err = "Ok" THEN new_admin ELSE rep_admin
        /\ UNCHANGED <<updaters, scores>>
        /\ rep_last' = RepOutcome("set_admin", rep_admin, None, 0, err)

\* mutant: any authorized caller may grant and revoke the updater role
SetUpdaterErrAnyCaller(auth, caller) ==
    IF ~auth THEN "AuthFailed" ELSE "Ok"

\* set_updater(admin, updater, allowed): the outcome of the checks
SetUpdaterErr(auth, caller) ==
    IF ~auth THEN "AuthFailed"
    ELSE IF rep_admin = None \/ caller # rep_admin THEN "NotAdmin"
    ELSE "Ok"

SetUpdater(auth, caller, updater, allowed) ==
    LET err == SetUpdaterErr(auth, caller)
    IN  /\ updaters' = IF err # "Ok" THEN updaters
                       ELSE IF allowed THEN updaters \cup {updater}
                       ELSE updaters \ {updater}
        /\ UNCHANGED <<rep_admin, scores>>
        /\ rep_last' = RepOutcome("set_updater", caller, updater,
                                  IF allowed THEN 1 ELSE 0, err)

\* the updater check shared by the three score updates
RequireUpdater(auth, updater) ==
    IF ~auth THEN "AuthFailed"
    ELSE IF ~IsUpdater(updater) THEN "NotUpdater"
    ELSE "Ok"

\* set_score(updater, user, new_score): the outcome of the checks
SetScoreErr(auth, updater, user, new_score) ==
    IF RequireUpdater(auth, updater) # "Ok" THEN RequireUpdater(auth, updater)
    ELSE IF new_score > MAX_SCORE THEN "OutOfBounds"
    ELSE "Ok"

SetScore(auth, updater, user, new_score) ==
    LET err == SetScoreErr(auth, updater, user, new_score)
    IN  /\ scores' = IF err = "Ok" THEN WithScore(user, new_score) ELSE scores
        /\ UNCHANGED <<rep_admin, updaters>>
        /\ rep_last' = RepOutcome("set_score", updater, user, new_score, err)

\* mutant: the increase is not compared with the maximum
IncreaseScoreErrUnchecked(auth, updater, user, amount) ==
    RequireUpdater(auth, updater)

\* increase_score(updater, user, amount): the outcome of the checks
IncreaseScoreErr(auth, updater, user, amount) ==
    IF RequireUpdater(auth, updater) # "Ok" THEN RequireUpdater(auth, updater)
    ELSE IF GetScore(user) + amount > MAX_SCORE THEN "Overflow"
    ELSE "Ok"

IncreaseScore(auth, updater, user, amount) ==
    LET err == IncreaseScoreErr(auth, updater, user, amount)
    IN  /\ scores' = IF err = "Ok"
                     THEN WithScore(user, GetScore(user) + amount)
                     ELSE scores
        /\ UNCHANGED <<rep_admin, updaters>>
        /\ rep_last' = RepOutcome("increase_score", updater, user, amount, err)

\* decrease_score(updater, user, amount): the outcome of the checks
DecreaseScoreErr(auth, updater, user, amount) ==
    IF RequireUpdater(auth, updater) # "Ok" THEN RequireUpdater(auth, updater)
    ELSE IF amount > GetScore(user) THEN "Underflow"
    ELSE "Ok"

DecreaseScore(auth, updater, user, amount) ==
    LET err == DecreaseScoreErr(auth, updater, user, amount)
    IN  /\ scores' = IF err = "Ok"
                     THEN WithScore(user, GetScore(user) - amount)
                     ELSE scores
        /\ UNCHANGED <<rep_admin, updaters>>
        /\ rep_last' = RepOutcome("decrease_score", updater, user, amount, err)

----------------------------------------------------------------------------
(* The Merchant Registry contract *)

\* addresses registered as merchants
MerchantArgs == {MERCHANT, "merchant2"}

\* merchant names: empty, ordinary, of 64 characters and of 65
MerchantNames ==
    {"", "Stellar Books",
     "NNNNNNNNNNNNNNNNNNNNNNNNNNNNNNNNNNNNNNNNNNNNNNNNNNNNNNNNNNNNNNNN",
     "NNNNNNNNNNNNNNNNNNNNNNNNNNNNNNNNNNNNNNNNNNNNNNNNNNNNNNNNNNNNNNNNN"}

\* the record of a Merchant Registry invocation: the merchant for a successful one
MrOutcome(op, merchant, err) ==
    IF err = "Ok"
    THEN [op |-> op, merchant |-> merchant, err |-> err]
    ELSE [op |-> op, merchant |-> None, err |-> err]

\* storage::has_merchant, storage::get_merchant_count
HasMerchant(merchant) == merchant \in DOMAIN merchants

GetMerchantCount == merchant_count

\* is_active(merchant)
IsActive(merchant) ==
    IF HasMerchant(merchant) THEN merchants[merchant].active ELSE FALSE

\* initialize(admin)
MrInitializeErr == IF mr_admin # None THEN "AlreadyInitialized" ELSE "Ok"

MrInitialize(new_admin) ==
    LET err == MrInitializeErr
    IN  /\ mr_admin' = IF err = "Ok" THEN new_admin ELSE mr_admin
        /\ UNCHANGED <<merchants, merchant_count>>
        /\ mr_last' = MrOutcome("initialize", None, err)

\* access::require_admin(env, admin)
MrRequireAdmin(auth, caller) ==
    IF ~auth THEN "AuthFailed"
    ELSE IF caller # mr_admin THEN "AdminMismatch"
    ELSE "Ok"

\* mutant: a registered address can be registered again
RegisterMerchantErrAgain(auth, caller, merchant, name) ==
    IF mr_admin = None THEN "NotInitialized"
    ELSE IF MrRequireAdmin(auth, caller) # "Ok" THEN MrRequireAdmin(auth, caller)
    ELSE IF Len(name) = 0 \/ Len(name) > 64 THEN "InvalidName"
    ELSE "Ok"

\* register_merchant: the outcome of the checks, in the order of the code
RegisterMerchantErr(auth, caller, merchant, name) ==
    IF mr_admin = None THEN "NotInitialized"
    ELSE IF MrRequireAdmin(auth, caller) # "Ok" THEN MrRequireAdmin(auth, caller)
    ELSE IF HasMerchant(merchant) THEN "MerchantAlreadyRegistered"
    ELSE IF Len(name) = 0 \/ Len(name) > 64 THEN "InvalidName"
    ELSE "Ok"

\* the MerchantInfo of a new merchant (lib.rs 52-57)
NewMerchantInfo(name) ==
    [name |-> name, registration_date |-> now, active |-> TRUE, total_sales |-> 0]

\* storage::set_merchant
WithMerchant(merchant, info) ==
    [m \in DOMAIN merchants \cup {merchant} |->
        IF m = merchant THEN info ELSE merchants[m]]

\* register_merchant(admin, merchant, name)
RegisterMerchant(auth, caller, merchant, name) ==
    LET err == RegisterMerchantErr(auth, caller, merchant, name)
    IN  /\ merchants' = IF err = "Ok"
                        THEN WithMerchant(merchant, NewMerchantInfo(name))
                        ELSE merchants
        /\ merchant_count' = IF err = "Ok" THEN GetMerchantCount + 1
                             ELSE merchant_count
        /\ UNCHANGED mr_admin
        /\ mr_last' = MrOutcome("register_merchant", merchant, err)

\* deactivate_merchant, activate_merchant: the outcome of the checks
SetActiveErr(auth, caller, merchant) ==
    IF mr_admin = None THEN "NotInitialized"
    ELSE IF MrRequireAdmin(auth, caller) # "Ok" THEN MrRequireAdmin(auth, caller)
    ELSE IF ~HasMerchant(merchant) THEN "MerchantNotFound"
    ELSE "Ok"

\* mutant: the record is written afresh with the new flag
WithActiveFresh(info, active) ==
    [name |-> info.name, registration_date |-> now, active |-> active,
     total_sales |-> 0]

\* info.active = active (lib.rs 76, 93)
WithActive(info, active) == [info EXCEPT !.active = active]

\* deactivate_merchant(admin, merchant)
DeactivateMerchant(auth, caller, merchant) ==
    LET err == SetActiveErr(auth, caller, merchant)
    IN  /\ merchants' = IF err = "Ok"
                        THEN WithMerchant(merchant,
                                          WithActive(merchants[merchant], FALSE))
                        ELSE merchants
        /\ UNCHANGED <<mr_admin, merchant_count>>
        /\ mr_last' = MrOutcome("deactivate_merchant", merchant, err)

\* activate_merchant(admin, merchant)
ActivateMerchant(auth, caller, merchant) ==
    LET err == SetActiveErr(auth, caller, merchant)
    IN  /\ merchants' = IF err = "Ok"
                        THEN WithMerchant(merchant,
                                          WithActive(merchants[merchant], TRUE))
                        ELSE merchants
        /\ UNCHANGED <<mr_admin, merchant_count>>
        /\ mr_last' = MrOutcome("activate_merchant", merchant, err)

\* the ledger timestamp moves between invocations of the registry
RegistryAdvanceTime(time) ==
    /\ now' = time
    /\ mr_last' = MrOutcome("none", None, "Ok")
    /\ UNCHANGED <<mr_admin, merchants, merchant_count>>

----------------------------------------------------------------------------
(* Specifications *)

\* An invocation the host finds unauthorized fails before it reads its amounts:
\* it is tried with zero amounts only.
Unread(auth, a, b) == auth \/ (a = 0 /\ b = 0)

InitializeCall ==
    \E auth \in BOOLEAN : Initialize(auth, ADMIN, TOKEN, TREASURY, MERCHANT_FUND)
        /\ UNCHANGED <<cl_vars, rep_vars, mr_vars, fn_vars>>

SetCreditlineCall ==
    \E auth \in BOOLEAN, caller \in {ADMIN, "lp1"} :
        SetCreditline(auth, caller, CREDITLINE)
        /\ UNCHANGED <<cl_vars, rep_vars, mr_vars, fn_vars>>

DepositCall ==
    \E auth \in BOOLEAN, provider \in Providers, amount \in Amounts :
        Unread(auth, amount, 0) /\ Deposit(auth, provider, amount)
        /\ UNCHANGED <<cl_vars, rep_vars, mr_vars, fn_vars>>

WithdrawCall ==
    \E auth \in BOOLEAN, provider \in Providers, shares \in Amounts :
        Unread(auth, shares, 0) /\ Withdraw(auth, provider, shares)
        /\ UNCHANGED <<cl_vars, rep_vars, mr_vars, fn_vars>>

FundLoanCall ==
    \E auth \in BOOLEAN, cl \in CreditlineArgs, amount \in Amounts :
        Unread(auth, amount, 0) /\ FundLoan(auth, cl, MERCHANT, amount)
        /\ UNCHANGED <<cl_vars, rep_vars, mr_vars, fn_vars>>

ReceiveRepaymentCall ==
    \E auth \in BOOLEAN, cl \in CreditlineArgs,
       principal \in Principals, interest \in RepaymentInterests :
        Unread(auth, principal, interest)
        /\ ReceiveRepayment(auth, cl, principal, interest)
        /\ UNCHANGED <<cl_vars, rep_vars, mr_vars, fn_vars>>

ReceiveGuaranteeCall ==
    \E auth \in BOOLEAN, cl \in CreditlineArgs, amount \in Amounts :
        Unread(auth, amount, 0) /\ ReceiveGuarantee(auth, cl, amount)
        /\ UNCHANGED <<cl_vars, rep_vars, mr_vars, fn_vars>>

DistributeInterestCall ==
    \E interest_amount \in InterestAmounts : DistributeInterest(interest_amount)
        /\ UNCHANGED <<cl_vars, rep_vars, mr_vars, fn_vars>>

Next ==
    \/ InitializeCall
    \/ SetCreditlineCall
    \/ DepositCall
    \/ WithdrawCall
    \/ FundLoanCall
    \/ ReceiveRepaymentCall
    \/ ReceiveGuaranteeCall
    \/ DistributeInterestCall

Spec == Init /\ [][Next]_vars

\* every pool operation but receive_guarantee
NextNoGuarantee ==
    \/ InitializeCall
    \/ SetCreditlineCall
    \/ DepositCall
    \/ WithdrawCall
    \/ FundLoanCall
    \/ ReceiveRepaymentCall
    \/ DistributeInterestCall

SpecNoGuarantee == Init /\ [][NextNoGuarantee]_vars

\* only LP deposits and withdrawals (and configuration): no interest distribution,
\* no loan operation
NextDW ==
    \/ InitializeCall
    \/ SetCreditlineCall
    \/ DepositCall
    \/ WithdrawCall

SpecDW == Init /\ [][NextDW]_vars

\* the configuration entry points, with every argument varied
InitializeAnyCall ==
    \E auth \in BOOLEAN, a \in AdminArgs, t \in TokenArgs,
       tr \in FeeRecipients, mf \in FeeRecipients :
        Initialize(auth, a, t, tr, mf)
        /\ UNCHANGED <<cl_vars, rep_vars, mr_vars, fn_vars>>

SetCreditlineAnyCall ==
    \E auth \in BOOLEAN, caller \in AdminArgs, cl \in CreditlineArgs :
        SetCreditline(auth, caller, cl)
        /\ UNCHANGED <<cl_vars, rep_vars, mr_vars, fn_vars>>

SetTreasuryCall ==
    \E auth \in BOOLEAN, caller \in AdminArgs, tr \in FeeRecipients :
        SetTreasury(auth, caller, tr)
        /\ UNCHANGED <<cl_vars, rep_vars, mr_vars, fn_vars>>

SetMerchantFundCall ==
    \E auth \in BOOLEAN, caller \in AdminArgs, mf \in FeeRecipients :
        SetMerchantFund(auth, caller, mf)
        /\ UNCHANGED <<cl_vars, rep_vars, mr_vars, fn_vars>>

SetAdminCall ==
    \E auth \in BOOLEAN, new_admin \in AdminArgs : SetAdmin(auth, new_admin)
        /\ UNCHANGED <<cl_vars, rep_vars, mr_vars, fn_vars>>

NextAdmin ==
    \/ InitializeAnyCall
    \/ SetCreditlineAnyCall
    \/ SetTreasuryCall
    \/ SetMerchantFundCall
    \/ SetAdminCall

SpecAdmin == Init /\ [][NextAdmin]_vars

\* the credit line is registered and replaced while loans are funded and repaid
RegisterCreditlineCall ==
    \E cl \in CreditlineArgs : SetCreditline(TRUE, ADMIN, cl)
        /\ UNCHANGED <<cl_vars, rep_vars, mr_vars, fn_vars>>

NextGate ==
    \/ InitializeCall
    \/ RegisterCreditlineCall
    \/ DepositCall
    \/ FundLoanCall
    \/ ReceiveRepaymentCall
    \/ ReceiveGuaranteeCall

SpecGate == Init /\ [][NextGate]_vars

\* the Credit Line on its own
CreateLoanCall ==
    \E borrower \in Borrowers, total_amount \in TotalAmounts,
       guarantee_amount \in GuaranteeAmounts, schedule \in Schedules,
       score \in Scores :
        /\ loan_counter < MaxLoans
        /\ CreateLoan(borrower, MERCHANT, total_amount, guarantee_amount, schedule,
                      score)
        /\ UNCHANGED <<pool_vars, rep_vars, mr_vars, fn_vars>>

MarkDefaultedCall ==
    \E loan_id \in 1 .. MaxLoans + 1, slash_ok \in BOOLEAN :
        MarkDefaulted(loan_id, slash_ok) /\ UNCHANGED <<pool_vars, rep_vars, mr_vars, fn_vars>>

AdvanceTimeCall ==
    \E time \in Times : AdvanceTime(time) /\ UNCHANGED <<pool_vars, rep_vars, mr_vars, fn_vars>>

NextCreditLine ==
    \/ CreateLoanCall
    \/ MarkDefaultedCall
    \/ AdvanceTimeCall

SpecCreditLine == Init /\ [][NextCreditLine]_vars

\* create_loan with any schedule argument, the empty one included (tests.rs 316
\* passes one); mark_defaulted, which reads the last installment, is left out
SchedulesOrEmpty == Schedules \cup {<< >>}

CreateLoanAnyScheduleCall ==
    \E borrower \in Borrowers, total_amount \in TotalAmounts,
       guarantee_amount \in GuaranteeAmounts, schedule \in SchedulesOrEmpty,
       score \in Scores :
        /\ loan_counter < MaxLoans
        /\ CreateLoan(borrower, MERCHANT, total_amount, guarantee_amount, schedule,
                      score)
        /\ UNCHANGED <<pool_vars, rep_vars, mr_vars, fn_vars>>

NextSchedules ==
    \/ CreateLoanAnyScheduleCall
    \/ AdvanceTimeCall

SpecSchedules == Init /\ [][NextSchedules]_vars

\* the guarantee check alone, on every pair of small positive amounts
ValidateGuaranteeCall ==
    ValidateGuarantee /\ UNCHANGED <<pool_vars, cl_vars, rep_vars, mr_vars>>

NextGuarantee == ValidateGuaranteeCall

SpecGuarantee == GuaranteeInit /\ [][NextGuarantee]_vars

\* interest reaches the pool with no loan funded: the credit line repays interest
\* on a principal of zero, or distribute_interest is invoked directly
InterestRepaymentCall ==
    \E interest \in RepaymentInterests :
        ReceiveRepayment(TRUE, CREDITLINE, 0, interest)
        /\ UNCHANGED <<cl_vars, rep_vars, mr_vars, fn_vars>>

NextInterest ==
    \/ InitializeCall
    \/ SetCreditlineCall
    \/ DepositCall
    \/ WithdrawCall
    \/ InterestRepaymentCall
    \/ DistributeInterestCall

SpecInterest == Init /\ [][NextInterest]_vars

\* the pool is funded, lent from and paid interest while its statistics are read
GetPoolStatsCall ==
    GetPoolStats /\ UNCHANGED <<cl_vars, rep_vars, mr_vars, fn_vars>>

NextStats ==
    \/ InitializeCall
    \/ SetCreditlineCall
    \/ DepositCall
    \/ WithdrawCall
    \/ FundLoanCall
    \/ InterestRepaymentCall
    \/ DistributeInterestCall
    \/ GetPoolStatsCall

SpecStats == Init /\ [][NextStats]_vars

\* the pool is funded, lent from, repaid and paid interest while the worth of
\* shares is asked for
CalculateWithdrawalCall ==
    \E shares \in Amounts : CalculateWithdrawal(shares)
        /\ UNCHANGED <<cl_vars, rep_vars, mr_vars, fn_vars>>

NextCalculate ==
    \/ InitializeCall
    \/ SetCreditlineCall
    \/ DepositCall
    \/ WithdrawCall
    \/ FundLoanCall
    \/ ReceiveRepaymentCall
    \/ DistributeInterestCall
    \/ CalculateWithdrawalCall

SpecCalculate == Init /\ [][NextCalculate]_vars

\* Amounts at the edge of the integer range.  A pool that is initialized and wired
\* is drawn with share totals and pool values up to I128_MAX, all shares held by the
\* first provider, and one operation is applied to it.
HALF_WIDTH == 32768

WideShares == {0, 1, HALF_WIDTH, 2 * HALF_WIDTH, I128_MAX - 1, I128_MAX}

WideLiquidity == {0, 2, HALF_WIDTH, 2 * HALF_WIDTH, I128_MAX - 1, I128_MAX}

WideAmounts == {1, 2, HALF_WIDTH, 2 * HALF_WIDTH}

WideBalance(h) ==
    IF h \in Providers \cup {POOL, CREDITLINE} THEN 2 * HALF_WIDTH ELSE 0

WideInit ==
    /\ CreditLineInit
    /\ ReputationInit
    /\ RegistryInit
    /\ guarantee_check = NoGuaranteeCheck
    /\ admin = ADMIN
    /\ token = TOKEN
    /\ treasury = TREASURY
    /\ merchant_fund = MERCHANT_FUND
    /\ creditline = CREDITLINE
    /\ total_shares \in WideShares
    /\ total_liquidity \in WideLiquidity
    /\ locked_liquidity \in {0, 1}
    /\ locked_liquidity <= total_liquidity
    /\ lp_shares = [p \in Providers |-> IF p = "lp1" THEN total_shares ELSE 0]
    /\ balances = [h \in Holders |-> WideBalance(h)]
    /\ net_deposits = 0
    /\ last = Outcome("none", None, 0, 0, "Ok", 0)

Untouched == last.op = "none"

WideDepositCall ==
    \E provider \in Providers, amount \in WideAmounts :
        /\ Untouched
        /\ Deposit(TRUE, provider, amount)
        /\ UNCHANGED <<cl_vars, rep_vars, mr_vars, fn_vars>>

WideWithdrawCall ==
    \E provider \in Providers, shares \in WideAmounts :
        /\ Untouched
        /\ Withdraw(TRUE, provider, shares)
        /\ UNCHANGED <<cl_vars, rep_vars, mr_vars, fn_vars>>

WideFundLoanCall ==
    \E amount \in WideAmounts :
        /\ Untouched
        /\ FundLoan(TRUE, CREDITLINE, MERCHANT, amount)
        /\ UNCHANGED <<cl_vars, rep_vars, mr_vars, fn_vars>>

WideReceiveRepaymentCall ==
    \E principal \in {0, 1}, interest \in {0, 2} :
        /\ Untouched
        /\ ReceiveRepayment(TRUE, CREDITLINE, principal, interest)
        /\ UNCHANGED <<cl_vars, rep_vars, mr_vars, fn_vars>>

WideReceiveGuaranteeCall ==
    \E amount \in WideAmounts :
        /\ Untouched
        /\ ReceiveGuarantee(TRUE, CREDITLINE, amount)
        /\ UNCHANGED <<cl_vars, rep_vars, mr_vars, fn_vars>>

WideDistributeInterestCall ==
    \E interest_amount \in WideAmounts :
        /\ Untouched
        /\ DistributeInterest(interest_amount)
        /\ UNCHANGED <<cl_vars, rep_vars, mr_vars, fn_vars>>

NextWide ==
    \/ WideDepositCall
    \/ WideWithdrawCall
    \/ WideFundLoanCall
    \/ WideReceiveRepaymentCall
    \/ WideReceiveGuaranteeCall
    \/ WideDistributeInterestCall

SpecWide == WideInit /\ [][NextWide]_vars

\* the Reputation contract on its own
SetRepAdminCall ==
    \E auth \in BOOLEAN, new_admin \in AdminArgs :
        SetRepAdmin(auth, new_admin)
        /\ UNCHANGED <<pool_vars, cl_vars, mr_vars, fn_vars>>

SetUpdaterCall ==
    \E auth \in BOOLEAN, caller \in AdminArgs, updater \in UpdaterArgs,
       allowed \in BOOLEAN :
        SetUpdater(auth, caller, updater, allowed)
        /\ UNCHANGED <<pool_vars, cl_vars, mr_vars, fn_vars>>

SetScoreCall ==
    \E auth \in BOOLEAN, updater \in UpdaterArgs, user \in Borrowers,
       new_score \in ScoreArgs :
        SetScore(auth, updater, user, new_score)
        /\ UNCHANGED <<pool_vars, cl_vars, mr_vars, fn_vars>>

IncreaseScoreCall ==
    \E auth \in BOOLEAN, updater \in UpdaterArgs, user \in Borrowers,
       amount \in ScoreAmounts :
        IncreaseScore(auth, updater, user, amount)
        /\ UNCHANGED <<pool_vars, cl_vars, mr_vars, fn_vars>>

DecreaseScoreCall ==
    \E auth \in BOOLEAN, updater \in UpdaterArgs, user \in Borrowers,
       amount \in ScoreAmounts :
        DecreaseScore(auth, updater, user, amount)
        /\ UNCHANGED <<pool_vars, cl_vars, mr_vars, fn_vars>>

NextReputation ==
    \/ SetRepAdminCall
    \/ SetUpdaterCall
    \/ SetScoreCall
    \/ IncreaseScoreCall
    \/ DecreaseScoreCall

SpecReputation == Init /\ [][NextReputation]_vars

\* the Merchant Registry on its own
MrInitializeCall ==
    \E caller \in AdminArgs : MrInitialize(caller)
        /\ UNCHANGED <<pool_vars, cl_vars, rep_vars, fn_vars>>

RegisterMerchantCall ==
    \E auth \in BOOLEAN, caller \in AdminArgs, merchant \in MerchantArgs,
       name \in MerchantNames :
        RegisterMerchant(auth, caller, merchant, name)
        /\ UNCHANGED <<pool_vars, cl_vars, rep_vars, fn_vars>>

DeactivateMerchantCall ==
    \E auth \in BOOLEAN, caller \in AdminArgs, merchant \in MerchantArgs :
        DeactivateMerchant(auth, caller, merchant)
        /\ UNCHANGED <<pool_vars, cl_vars, rep_vars, fn_vars>>

ActivateMerchantCall ==
    \E auth \in BOOLEAN, caller \in AdminArgs, merchant \in MerchantArgs :
        ActivateMerchant(auth, caller, merchant)
        /\ UNCHANGED <<pool_vars, cl_vars, rep_vars, fn_vars>>

RegistryAdvanceTimeCall ==
    \E time \in Times : RegistryAdvanceTime(time)
        /\ UNCHANGED <<pool_vars, rep_vars, loan_counter, loans, cl_last, fn_vars>>

NextRegistry ==
    \/ MrInitializeCall
    \/ RegisterMerchantCall
    \/ DeactivateMerchantCall
    \/ ActivateMerchantCall
    \/ RegistryAdvanceTimeCall

SpecRegistry == Init /\ [][NextRegistry]_vars

----------------------------------------------------------------------------
(* Properties of the Liquidity Pool *)

RECURSIVE SumOver(_, _)
SumOver(f, S) ==
    IF S = {} THEN 0
    ELSE LET x == CHOOSE y \in S : TRUE IN f[x] + SumOver(f, S \ {x})

Called(op) == last.op = op /\ last.err = "Ok"

\* C1: in every reachable state total_shares is the sum of the lp_shares of all
\* providers.
ShareConservation == total_shares = SumOver(lp_shares, Providers)

\* both providers hold shares, interest has raised the pool value, a loan is out
ShareConservationWitness ==
    /\ Called("withdraw")
    /\ \A p \in Providers : lp_shares[p] > 0
    /\ total_liquidity > total_shares
    /\ locked_liquidity > 0

\* C2: a withdraw whose amount floor(shares * total_liquidity / total_shares)
\* exceeds total_liquidity - locked_liquidity never succeeds: a call that holds the
\* shares it burns fails with InsufficientLiquidity, and a failed withdraw leaves
\* lp_shares, total_shares, total_liquidity and locked_liquidity unchanged.
WithdrawLockedRefused ==
    \A p \in Providers, s \in Amounts, auth \in BOOLEAN :
        (/\ total_shares # 0
         /\ (s * total_liquidity) \div total_shares > total_liquidity - locked_liquidity)
        => /\ WithdrawErr(auth, p, s) # "Ok"
           /\ (auth /\ s > 0 /\ lp_shares[p] >= s)
                  => WithdrawErr(auth, p, s) = "InsufficientLiquidity"

WithdrawLockedStep ==
    /\ (last'.op = "withdraw" /\ last'.err # "Ok")
           => UNCHANGED <<lp_shares, total_shares, total_liquidity, locked_liquidity,
                          balances>>
    /\ (last'.op = "withdraw" /\ last'.err = "Ok")
           => last'.ret <= total_liquidity - locked_liquidity

PoolBounds ==
    /\ total_shares >= 0
    /\ total_liquidity >= 0
    /\ 0 <= locked_liquidity
    /\ locked_liquidity <= total_liquidity

\* C4: with deposits and withdrawals only, total_liquidity is the sum of the
\* amounts deposited minus the sum of the amounts returned, and is the number of
\* tokens the pool holds.
NetDepositAccounting ==
    /\ total_liquidity = net_deposits
    /\ total_liquidity = balances[POOL]

\* a withdrawal was paid out and deposits of both providers remain
NetDepositWitness ==
    /\ Called("withdraw")
    /\ last.ret > 0
    /\ total_liquidity > 0

\* C5: distribute_interest splits I > 0 into lp = floor(I*8500/10000),
\* protocol = floor(I*1000/10000) and merchant = I - lp - protocol, which are
\* non-negative and sum to I; the treasury receives protocol tokens, the merchant
\* fund merchant tokens, and total_liquidity grows by exactly lp.
FeeSplitExact ==
    \A I \in {i \in InterestAmounts \cup RepaymentInterests \cup {101} : i > 0} :
        LET lp == (I * 8500) \div 10000
            protocol == (I * 1000) \div 10000
            merchant == I - lp - protocol
        IN  /\ LpAmount(I) = lp
            /\ ProtocolAmount(I) = protocol
            /\ MerchantAmount(I) = merchant
            /\ lp >= 0 /\ protocol >= 0 /\ merchant >= 0
            /\ LpAmount(I) + ProtocolAmount(I) + MerchantAmount(I) = I
            /\ (I = 101 => lp = 85 /\ protocol = 10 /\ merchant = 6)

\* the effect of distributing interest I on top of a returned principal
FeeSplitEffect(principal, I) ==
    LET lp == (I * 8500) \div 10000
        protocol == (I * 1000) \div 10000
        merchant == I - lp - protocol
    IN  /\ I > 0
        /\ total_liquidity' = total_liquidity + principal + lp
        /\ balances'[TREASURY] = balances[TREASURY] + protocol
        /\ balances'[MERCHANT_FUND] = balances[MERCHANT_FUND] + merchant

FeeSplitStep ==
    /\ (last'.op = "distribute_interest" /\ last'.err = "Ok")
           => /\ FeeSplitEffect(0, last'.a)
              /\ balances'[POOL] = balances[POOL] - (last'.a - (last'.a * 8500) \div 10000)
    /\ (last'.op = "receive_repayment" /\ last'.err = "Ok" /\ last'.b > 0)
           => FeeSplitEffect(last'.a, last'.b)

FeeSplit == []FeeSplitExact /\ [][FeeSplitStep]_vars

\* interest of 10 was distributed: 8 to the pool value, 1 to the treasury and 1,
\* the remainder, to the merchant fund
FeeSplitWitness ==
    /\ Called("distribute_interest")
    /\ last.a = 10
    /\ balances[TREASURY] = 1
    /\ balances[MERCHANT_FUND] = 1
    /\ total_shares > 0

\* C6: deposit issues amount shares into an empty pool and otherwise
\* floor(amount * total_shares / total_liquidity); it fails with InvalidAmount when
\* amount <= 0 or the computed shares are <= 0; a successful deposit issues at
\* least one share, adds the shares to lp_shares[provider] and total_shares and the
\* amount to total_liquidity, and leaves locked_liquidity and the other providers'
\* shares unchanged.
DepositRefused ==
    \A p \in Providers, a \in Amounts :
        /\ a <= 0 => DepositErr(TRUE, p, a) = "InvalidAmount"
        /\ (a > 0 /\ total_shares # 0 /\ total_liquidity # 0
            /\ (a * total_shares) \div total_liquidity <= 0)
               => DepositErr(TRUE, p, a) = "InvalidAmount"

DepositStep ==
    (last'.op = "deposit" /\ last'.err = "Ok")
        => LET a == last'.a
               p == last'.addr
               issued == IF total_shares = 0 \/ total_liquidity = 0
                         THEN a
                         ELSE (a * total_shares) \div total_liquidity
           IN  /\ a > 0
               /\ last'.ret = issued
               /\ issued >= 1
               /\ lp_shares' = [lp_shares EXCEPT ![p] = lp_shares[p] + issued]
               /\ total_shares' = total_shares + issued
               /\ total_liquidity' = total_liquidity + a
               /\ locked_liquidity' = locked_liquidity

DepositShares == []DepositRefused /\ [][DepositStep]_vars

\* a deposit into a pool whose shares are worth more than one token each was
\* issued fewer shares than tokens
DepositSharesWitness ==
    /\ Called("deposit")
    /\ last.ret < last.a
    /\ \A p \in Providers : lp_shares[p] > 0

\* C7: withdraw fails with the first applicable of InvalidAmount, InsufficientShares,
\* ZeroTotalShares and InsufficientLiquidity; when none applies and the pool holds
\* the tokens to pay, it returns floor(shares * total_liquidity / total_shares),
\* takes the shares from lp_shares[provider] and total_shares and the amount from
\* total_liquidity, and leaves locked_liquidity and the other providers' shares
\* unchanged.
WithdrawExpected(p, s) ==
    IF s <= 0 THEN "InvalidAmount"
    ELSE IF lp_shares[p] < s THEN "InsufficientShares"
    ELSE IF total_shares = 0 THEN "ZeroTotalShares"
    ELSE IF (s * total_liquidity) \div total_shares > total_liquidity - locked_liquidity
         THEN "InsufficientLiquidity"
    ELSE "Ok"

WithdrawErrorOrder ==
    \A p \in Providers, s \in Amounts :
        /\ WithdrawExpected(p, s) # "Ok"
               => WithdrawErr(TRUE, p, s) = WithdrawExpected(p, s)
        /\ (/\ WithdrawExpected(p, s) = "Ok"
            /\ balances[POOL] >= (s * total_liquidity) \div total_shares)
               => WithdrawErr(TRUE, p, s) = "Ok"

WithdrawStep ==
    (last'.op = "withdraw" /\ last'.err = "Ok")
        => LET s == last'.a
               p == last'.addr
               amount == (s * total_liquidity) \div total_shares
           IN  /\ WithdrawExpected(p, s) = "Ok"
               /\ last'.ret = amount
               /\ lp_shares' = [lp_shares EXCEPT ![p] = lp_shares[p] - s]
               /\ total_shares' = total_shares - s
               /\ total_liquidity' = total_liquidity - amount
               /\ locked_liquidity' = locked_liquidity

RepaymentRefused ==
    \A pr \in Principals, i \in RepaymentInterests :
        creditline # None
        => /\ (pr < 0 \/ i < 0 \/ pr + i <= 0)
                  => ReceiveRepaymentErr(TRUE, creditline, pr, i) = "InvalidAmount"
           /\ (pr >= 0 /\ i >= 0 /\ pr + i > 0 /\ balances[creditline] >= pr + i)
                  => ReceiveRepaymentErr(TRUE, creditline, pr, i) = "Ok"

RepaymentStep ==
    (last'.op = "receive_repayment" /\ last'.err = "Ok")
        => LET pr == last'.a
               i == last'.b
           IN  /\ pr >= 0 /\ i >= 0 /\ pr + i > 0
               /\ last'.addr = creditline
               /\ locked_liquidity' = locked_liquidity - pr
               /\ total_liquidity' = total_liquidity + pr + (i * 8500) \div 10000
               /\ total_shares' = total_shares
               /\ lp_shares' = lp_shares
               /\ balances'[POOL] + balances'[TREASURY] + balances'[MERCHANT_FUND]
                      = balances[POOL] + balances[TREASURY] + balances[MERCHANT_FUND]
                        + pr + i
               /\ i = 0 => /\ balances'[TREASURY] = balances[TREASURY]
                           /\ balances'[MERCHANT_FUND] = balances[MERCHANT_FUND]

RepaymentEffect == []RepaymentRefused /\ [][RepaymentStep]_vars

\* a loan was repaid with interest while providers hold shares
RepaymentEffectWitness ==
    /\ Called("receive_repayment")
    /\ last.a > 0
    /\ last.b > 0
    /\ locked_liquidity = 0
    /\ total_shares > 0

\* C9: receive_repayment fails with Underflow, changing no state, whenever
\* principal exceeds the current locked_liquidity: no repayment of more than is
\* locked succeeds.
RepaymentUnderflowStep ==
    (last'.op = "receive_repayment" /\ last'.err = "Ok")
        => last'.a <= locked_liquidity

RepaymentUnderflow == [][RepaymentUnderflowStep]_vars

\* C10: fund_loan by the registered credit line fails with InvalidAmount when
\* amount <= 0 and with InsufficientLiquidity when amount exceeds
\* total_liquidity - locked_liquidity; a successful fund_loan adds exactly amount
\* to locked_liquidity and leaves total_liquidity, total_shares and every lp_shares
\* balance unchanged.
FundLoanRefused ==
    \A a \in Amounts :
        creditline # None
        => /\ a <= 0 => FundLoanErr(TRUE, creditline, a) = "InvalidAmount"
           /\ (a > 0 /\ a > total_liquidity - locked_liquidity)
                  => FundLoanErr(TRUE, creditline, a) = "InsufficientLiquidity"

FundLoanStep ==
    (last'.op = "fund_loan" /\ last'.err = "Ok")
        => /\ last'.a > 0
           /\ last'.a <= total_liquidity - locked_liquidity
           /\ locked_liquidity' = locked_liquidity + last'.a
           /\ total_liquidity' = total_liquidity
           /\ total_shares' = total_shares
           /\ lp_shares' = lp_shares
           /\ balances'[MERCHANT] = balances[MERCHANT] + last'.a

FundLoanFrame == []FundLoanRefused /\ [][FundLoanStep]_vars

\* a second loan was funded on top of one that is still out
FundLoanFrameWitness ==
    /\ Called("fund_loan")
    /\ locked_liquidity > last.a
    /\ total_liquidity > 0
    /\ total_shares > 0

\* C11: fund_loan, receive_repayment and receive_guarantee succeed only for the
\* caller that is the registered credit line; an authorized call by any other
\* address, and by every address while none is registered, fails with NotCreditLine
\* and changes no state; once set_creditline has registered another address the
\* previous one is rejected.
GateOps == {"fund_loan", "receive_repayment", "receive_guarantee"}

CreditlineGateRefused ==
    \A cl \in CreditlineArgs, a \in Amounts, pr \in Principals,
       i \in RepaymentInterests, auth \in BOOLEAN :
        /\ cl # creditline
               => /\ FundLoanErr(TRUE, cl, a) = "NotCreditLine"
                  /\ ReceiveRepaymentErr(TRUE, cl, pr, i) = "NotCreditLine"
                  /\ ReceiveGuaranteeErr(TRUE, cl, a) = "NotCreditLine"
        /\ FundLoanErr(auth, cl, a) = "Ok" => cl = creditline
        /\ ReceiveRepaymentErr(auth, cl, pr, i) = "Ok" => cl = creditline
        /\ ReceiveGuaranteeErr(auth, cl, a) = "Ok" => cl = creditline

CreditlineGateStep ==
    /\ (last'.op \in GateOps /\ last'.err = "Ok")
           => /\ creditline # None
              /\ last'.addr = creditline
    /\ (last'.op \in GateOps /\ last'.err = "NotCreditLine") => UNCHANGED storage
    /\ (last'.op = "set_creditline" /\ last'.err = "Ok")
           => \A old \in CreditlineArgs :
                  (old = creditline /\ old # creditline')
                  => \A a \in Amounts, pr \in Principals, i \in RepaymentInterests :
                         /\ FundLoanErr(TRUE, old, a)' = "NotCreditLine"
                         /\ ReceiveRepaymentErr(TRUE, old, pr, i)' = "NotCreditLine"
                         /\ ReceiveGuaranteeErr(TRUE, old, a)' = "NotCreditLine"

CreditlineGate == []CreditlineGateRefused /\ [][CreditlineGateStep]_vars

\* the credit line that repaid a loan was replaced by another address, and its next
\* call was refused
CreditlineGateWitness ==
    /\ last.op \in GateOps
    /\ last.err = "NotCreditLine"
    /\ creditline = "lp1"
    /\ balances[CREDITLINE] < InitialBalance(CREDITLINE)

\* C12: receive_guarantee(creditline, amount) with amount > 0, paid by the registered
\* credit line, recovers min(amount, locked_liquidity): locked_liquidity falls and
\* total_liquidity rises by that much; when amount exceeds locked_liquidity the whole
\* amount still moves from the caller to the pool, locked_liquidity becomes 0 and the
\* excess is not added to total_liquidity.
GuaranteeAccepted ==
    \A a \in Amounts :
        (creditline # None /\ token # None /\ a > 0 /\ balances[creditline] >= a)
        => ReceiveGuaranteeErr(TRUE, creditline, a) = "Ok"

GuaranteeStep ==
    (last'.op = "receive_guarantee" /\ last'.err = "Ok")
        => LET amount == last'.a
               recovered == IF amount <= locked_liquidity
                            THEN amount
                            ELSE locked_liquidity
           IN  /\ amount > 0
               /\ locked_liquidity' = locked_liquidity - recovered
               /\ total_liquidity' = total_liquidity + recovered
               /\ balances'[last'.addr] = balances[last'.addr] - amount
               /\ balances'[POOL] = balances[POOL] + amount
               /\ amount > locked_liquidity
                      => /\ locked_liquidity' = 0
                         /\ total_liquidity' < total_liquidity + amount
               /\ UNCHANGED <<total_shares, lp_shares>>

GuaranteeRecovery == []GuaranteeAccepted /\ [][GuaranteeStep]_vars

\* a guarantee of 2 was paid against a single loan of 1: 1 was recovered into the
\* pool value of 2, the other token is held by the pool outside its accounting
GuaranteeRecoveryWitness ==
    /\ Called("receive_guarantee")
    /\ last.a = 2
    /\ balances[MERCHANT] = 1
    /\ net_deposits = 2
    /\ total_shares = 2
    /\ locked_liquidity = 0
    /\ total_liquidity = 3
    /\ balances[POOL] = 3

\* C13: every pool operation is all-or-nothing: when deposit, withdraw, fund_loan,
\* receive_repayment, receive_guarantee or distribute_interest fails, in particular
\* because a token transfer inside it fails, lp_shares, total_shares,
\* total_liquidity, locked_liquidity and every token balance are as before the call.
PoolOps == {"deposit", "withdraw", "fund_loan", "receive_repayment",
            "receive_guarantee", "distribute_interest"}

\* a withdraw whose transfer fails has made its three writes, and a repayment whose
\* interest distribution fails has received the tokens and booked the principal
WritesBeforeFailure ==
    /\ \A p \in Providers, s \in Amounts :
           WithdrawErr(TRUE, p, s) = "TokenError" => WithdrawWrites(TRUE, p, s) = 3
    /\ \A cl \in CreditlineArgs, pr \in Principals, i \in RepaymentInterests :
           (/\ ReceiveRepaymentErr(TRUE, cl, pr, i) # "Ok"
            /\ RepaymentWrites(TRUE, cl, pr, i) = 3)
           => /\ i > 0
              /\ ReceiveRepaymentErr(TRUE, cl, pr, i) =
                     DistributeInterestErr(
                         RepaymentTotalLiquidity(total_liquidity, pr),
                         Transfer(balances, cl, POOL, pr + i), i)

AllOrNothingStep ==
    (last'.op \in PoolOps /\ last'.err # "Ok")
        => UNCHANGED <<lp_shares, total_shares, total_liquidity, locked_liquidity,
                       balances, config>>

InitializeRefused ==
    admin # None => \A auth \in BOOLEAN : InitializeErr(auth) = "AlreadyInitialized"

InitializeStep ==
    /\ (last'.op = "initialize" /\ last'.err = "Ok")
           => /\ admin = None
              /\ admin' # None
    /\ (last'.op = "initialize" /\ last'.err # "Ok")
           => UNCHANGED <<admin, token, treasury, merchant_fund, creditline>>
    /\ (last'.op = "initialize" /\ admin # None)
           => /\ last'.err = "AlreadyInitialized"
              /\ UNCHANGED <<admin, token, treasury, merchant_fund>>
    /\ admin # None => admin' # None

InitializeOnce == []InitializeRefused /\ [][InitializeStep]_vars

\* a second initialize was refused after the admin and the fee recipients had been
\* replaced by the setters
InitializeOnceWitness ==
    /\ last.op = "initialize"
    /\ last.err = "AlreadyInitialized"
    /\ admin # None
    /\ token # None
    /\ treasury = MERCHANT_FUND
    /\ merchant_fund = TREASURY
    /\ creditline # None

\* C20: set_creditline, set_treasury and set_merchant_fund take effect only when
\* the caller is the stored admin, and otherwise fail with NotAdmin and change
\* nothing; set_admin takes effect only with the authorization of the stored admin;
\* after set_admin(new) the previous admin can change no address and the new one
\* can.
Setters == {"set_creditline", "set_treasury", "set_merchant_fund"}

AdminRefused ==
    admin # None
    => /\ \A caller \in AdminArgs \cup Providers :
              /\ SetCreditlineErr(TRUE, caller) =
                     (IF caller = admin THEN "Ok" ELSE "NotAdmin")
              /\ SetTreasuryErr(TRUE, caller) =
                     (IF caller = admin THEN "Ok" ELSE "NotAdmin")
              /\ SetMerchantFundErr(TRUE, caller) =
                     (IF caller = admin THEN "Ok" ELSE "NotAdmin")
              /\ SetCreditlineErr(FALSE, caller) # "Ok"
              /\ SetTreasuryErr(FALSE, caller) # "Ok"
              /\ SetMerchantFundErr(FALSE, caller) # "Ok"
       /\ SetAdminErr(TRUE) = "Ok"
       /\ SetAdminErr(FALSE) # "Ok"

AdminStep ==
    /\ (last'.op \in Setters /\ last'.err = "Ok")
           => /\ admin # None
              /\ last'.addr = admin
              /\ admin' = admin
    /\ (last'.op \in Setters \cup {"set_admin"} /\ last'.err # "Ok")
           => UNCHANGED <<admin, token, treasury, merchant_fund, creditline>>
    /\ creditline' # creditline
           => last'.op = "set_creditline" /\ last'.err = "Ok"
    /\ (treasury' # treasury /\ admin # None)
           => last'.op = "set_treasury" /\ last'.err = "Ok"
    /\ (merchant_fund' # merchant_fund /\ admin # None)
           => last'.op = "set_merchant_fund" /\ last'.err = "Ok"
    /\ (admin' # admin /\ admin # None)
           => last'.op = "set_admin" /\ last'.err = "Ok"
    /\ (last'.op = "set_admin" /\ last'.err = "Ok")
           => /\ last'.addr = admin
              /\ UNCHANGED <<token, treasury, merchant_fund, creditline>>
              /\ \A caller \in AdminArgs :
                     /\ (caller = admin /\ caller # admin')
                            => /\ SetCreditlineErr(TRUE, caller)' = "NotAdmin"
                               /\ SetTreasuryErr(TRUE, caller)' = "NotAdmin"
                               /\ SetMerchantFundErr(TRUE, caller)' = "NotAdmin"
                     /\ caller = admin'
                            => /\ SetCreditlineErr(TRUE, caller)' = "Ok"
                               /\ SetTreasuryErr(TRUE, caller)' = "Ok"
                               /\ SetMerchantFundErr(TRUE, caller)' = "Ok"

AdminOnly == []AdminRefused /\ [][AdminStep]_vars

\* the admin named at initialization handed over to another address
AdminOnlyWitness ==
    /\ Called("set_admin")
    /\ last.addr = ADMIN
    /\ admin = "admin2"
    /\ creditline # None

\* C21: after deposits and interest distributions, no loan ever funded, every
\* provider can withdraw all of their shares: the withdrawal succeeds, and the one
\* that burns the last shares returns all of total_liquidity, so the amounts
\* returned sum to the pool value and the pool ends with no shares and no value.
WithdrawAllPaid ==
    \A p \in Providers :
        lp_shares[p] > 0
        => /\ WithdrawErr(TRUE, p, lp_shares[p]) = "Ok"
           /\ lp_shares[p] = total_shares
                  => AmountReturned(lp_shares[p], total_liquidity, total_shares)
                         = total_liquidity

\* C22: once receive_repayment has returned locked_liquidity to zero, a withdraw
\* by any provider of any positive number of shares up to their balance succeeds
\* and pays out floor(shares * total_liquidity / total_shares).
WithdrawAfterRepayment ==
    (/\ Called("receive_repayment")
     /\ last.a > 0
     /\ locked_liquidity = 0)
    => \A p \in Providers : \A s \in 1 .. lp_shares[p] :
           /\ WithdrawErr(TRUE, p, s) = "Ok"
           /\ AmountReturned(s, total_liquidity, total_shares)
                  = (s * total_liquidity) \div total_shares

\* C23: when available liquidity is zero because the remaining pool value is
\* locked in a loan, a withdraw of more shares than the provider holds fails with
\* InsufficientLiquidity.
WithdrawExcessRefused ==
    (/\ total_shares > 0
     /\ locked_liquidity > 0
     /\ total_liquidity - locked_liquidity = 0)
    => \A p \in Providers, s \in Amounts :
           (/\ s > lp_shares[p]
            /\ (s * total_liquidity) \div total_shares > 0)
           => WithdrawErr(TRUE, p, s) = "InsufficientLiquidity"

\* the three portions of interest I rounded down, and what the rounding leaves
Floor85(I) == (I * 8500) \div 10000

Floor10(I) == (I * 1000) \div 10000

Floor5(I) == (I * 500) \div 10000

RoundingRemainder(I) == I - Floor85(I) - Floor10(I) - Floor5(I)

\* the interest distributed by the step, and the principal returned with it
InterestDistributed ==
    IF last'.op = "distribute_interest" THEN last'.a ELSE last'.b

PrincipalReturned ==
    IF last'.op = "distribute_interest" THEN 0 ELSE last'.a

InterestStep ==
    /\ last'.err = "Ok"
    /\ \/ last'.op = "distribute_interest"
       \/ last'.op = "receive_repayment" /\ last'.b > 0

\* C24 as stated: each portion is rounded down and the rounding remainder goes to
\* the liquidity providers (it is added to the LP portion that raises
\* total_liquidity), not to the treasury or the merchant fund.
RemainderToLpStep ==
    InterestStep
    => LET I == InterestDistributed
       IN  /\ balances'[TREASURY] = balances[TREASURY] + Floor10(I)
           /\ balances'[MERCHANT_FUND] = balances[MERCHANT_FUND] + Floor5(I)
           /\ total_liquidity' = total_liquidity + PrincipalReturned
                                     + Floor85(I) + RoundingRemainder(I)

RemainderToLp == [][RemainderToLpStep]_vars

\* C24 as amended: the LP and treasury portions are rounded down and the rounding
\* remainder goes to the merchant fund, on top of its own portion rounded down;
\* total_liquidity rises by the rounded-down LP portion only.
RemainderSplit ==
    \A I \in {i \in InterestAmounts \cup RepaymentInterests \cup {101} : i > 0} :
        /\ RoundingRemainder(I) >= 0
        /\ LpAmount(I) = Floor85(I)
        /\ ProtocolAmount(I) = Floor10(I)
        /\ MerchantAmount(I) = Floor5(I) + RoundingRemainder(I)

RemainderToMerchantFundStep ==
    InterestStep
    => LET I == InterestDistributed
       IN  /\ balances'[TREASURY] = balances[TREASURY] + Floor10(I)
           /\ balances'[MERCHANT_FUND] =
                  balances[MERCHANT_FUND] + Floor5(I) + RoundingRemainder(I)
           /\ total_liquidity' = total_liquidity + PrincipalReturned + Floor85(I)

RemainderToMerchantFund ==
    []RemainderSplit /\ [][RemainderToMerchantFundStep]_vars

\* interest of 2 came with a repayment into a pool with shares: the LP portion is
\* 1, the fees round down to 0 and the remainder of 1 is in the merchant fund
RemainderToMerchantFundWitness ==
    /\ Called("receive_repayment")
    /\ last.b = 2
    /\ RoundingRemainder(last.b) = 1
    /\ balances[MERCHANT_FUND] = 1
    /\ balances[TREASURY] = 0
    /\ total_shares > 0

\* the share price the spec gives for a pool value and a share total
PriceOf(tl, ts) == IF ts = 0 THEN 10000 ELSE (tl * 10000) \div ts

\* get_pool_stats changes no state and reports the current state: available
\* liquidity is total_liquidity - locked_liquidity, and the share price is 10000
\* for a pool with no shares and floor(total_liquidity * 10000 / total_shares)
\* otherwise
StatsStep ==
    last'.op = "get_pool_stats"
    => /\ UNCHANGED storage
       /\ last'.err = "Ok"
       /\ last'.ret.total_liquidity = total_liquidity
       /\ last'.ret.locked_liquidity = locked_liquidity
       /\ last'.ret.total_shares = total_shares
       /\ last'.ret.available_liquidity = total_liquidity - locked_liquidity
       /\ last'.ret.share_price = PriceOf(total_liquidity, total_shares)

\* the price is 10000 for an empty pool, and while the pool value is the net of
\* the deposits and withdrawals (no interest has been added to it)
StatsPar ==
    /\ (total_shares = 0 /\ total_liquidity = 0) => PoolStats.share_price = 10000
    /\ total_liquidity = net_deposits => PoolStats.share_price = 10000

\* C25 as stated: get_pool_stats changes no state and reports available_liquidity
\* = total_liquidity - locked_liquidity and share_price = 10000 when total_shares
\* is 0, otherwise floor(total_liquidity * 10000 / total_shares); the price is
\* 10000 for an empty pool, stays 10000 across deposits and withdrawals with no
\* interest, and is above 10000 after interest is distributed to a non-empty pool.
StatsAnyInterestStep ==
    (InterestStep /\ total_shares > 0) => PoolStats.share_price' > 10000

PoolStatsReported ==
    []StatsPar /\ [][StatsStep /\ StatsAnyInterestStep]_vars

\* C25 as amended: the same, but the price is above 10000 after interest only when
\* the pool was priced at 10000 or more and the LP portion of the interest,
\* floor(interest * 8500 / 10000), times 10000 is at least total_shares.
StatsInterestStep ==
    (/\ InterestStep
     /\ total_shares > 0
     /\ PoolStats.share_price >= 10000
     /\ Floor85(InterestDistributed) * 10000 >= total_shares)
    => /\ PoolStats.share_price' > 10000
       /\ PoolStats.share_price' > PoolStats.share_price

PoolStatsAmended ==
    []StatsPar /\ [][StatsStep /\ StatsInterestStep]_vars

\* the statistics were read after interest had raised the value of a pool with a
\* loan out: the price is above 10000 and less is available than the pool is worth
PoolStatsWitness ==
    /\ Called("get_pool_stats")
    /\ last.ret.share_price > 10000
    /\ last.ret.available_liquidity < last.ret.total_liquidity
    /\ last.ret.available_liquidity >= 0
    /\ total_shares > 0

\* C30: in every reachable state the tokens held by the pool contract are at least
\* total_liquidity - locked_liquidity, so that a withdraw or fund_loan that passes
\* the available-liquidity check can be paid; in particular after fund_loan(a)
\* and receive_repayment(a, 0) the available liquidity is no larger than the
\* tokens in custody.
PoolSolvency == balances[POOL] >= total_liquidity - locked_liquidity

\* C31: a direct invocation of distribute_interest takes effect only when the
\* registered CreditLine contract or the admin has authorized it; an invocation
\* that neither of them authorized fails and leaves total_liquidity and every
\* token balance unchanged.  (distribute_interest takes no address and asks for no
\* authorization, so no direct invocation carries one.)
DirectInterestGatedStep ==
    last'.op = "distribute_interest" => UNCHANGED <<total_liquidity, balances>>

DirectInterestGated == [][DirectInterestGatedStep]_vars

\* C32: in every state reachable by pool operations with no receive_guarantee
\* call, total_shares = 0 if and only if total_liquidity = 0.
SharesIffLiquidity == (total_shares = 0) <=> (total_liquidity = 0)

\* a receive_repayment or distribute_interest executed while the pool has no shares
CreditedWithoutShares ==
    /\ total_shares = 0
    /\ last'.op \in {"receive_repayment", "distribute_interest"}
    /\ last'.err = "Ok"

\* C32, amended: with no receive_guarantee call the equivalence holds at the
\* start and is preserved by every operation except a receive_repayment or a
\* distribute_interest executed while total_shares = 0, which credits principal
\* or interest to total_liquidity of a pool without shares.
SharesIffLiquidityStep ==
    (SharesIffLiquidity /\ ~CreditedWithoutShares) => SharesIffLiquidity'

SharesIffLiquidityKept ==
    /\ (admin = None => SharesIffLiquidity)
    /\ [][SharesIffLiquidityStep]_vars

\* the last shares were withdrawn from a pool that interest had made worth more than
\* its shares, and the pool value went to zero with them
SharesIffLiquidityWitness ==
    /\ Called("withdraw")
    /\ last.ret > last.a
    /\ total_shares = 0
    /\ total_liquidity = 0

\* the withdraw of exactly the shares that the deposit just made has issued
WithdrawOfIssued ==
    /\ Called("deposit")
    /\ last'.op = "withdraw"
    /\ last'.err = "Ok"
    /\ last'.addr = last.addr
    /\ last'.a = last.ret

\* C33: in every reachable state a successful deposit of amount a immediately
\* followed by a withdraw of exactly the shares it issued returns at most a tokens.
NoRoundingProfitStep == WithdrawOfIssued => last'.ret <= last.a

NoRoundingProfit == [][NoRoundingProfitStep]_vars

\* the deposit just made found shares in the pool, or no pool value
DepositedIntoSharedPool ==
    \/ total_shares - last.ret > 0
    \/ total_liquidity - last.a = 0

\* C33, amended: a successful deposit of amount a made when total_shares > 0 or
\* total_liquidity = 0, immediately followed by a withdraw of exactly the shares
\* it issued, returns at most a tokens.
NoProfitOnSharedPoolStep ==
    (WithdrawOfIssued /\ DepositedIntoSharedPool) => last'.ret <= last.a

NoProfitOnSharedPoolAfterDeposit ==
    (/\ Called("deposit")
     /\ DepositedIntoSharedPool
     /\ WithdrawErr(TRUE, last.addr, last.ret) = "Ok")
    => AmountReturned(last.ret, total_liquidity, total_shares) <= last.a

NoProfitOnSharedPool ==
    []NoProfitOnSharedPoolAfterDeposit /\ [][NoProfitOnSharedPoolStep]_vars

\* a deposit into a pool whose shares are worth more than one token each issued
\* fewer shares than tokens, and the withdraw of those shares can be paid
NoProfitOnSharedPoolWitness ==
    /\ Called("deposit")
    /\ last.ret < last.a
    /\ total_shares - last.ret > 0
    /\ WithdrawErr(TRUE, last.addr, last.ret) = "Ok"

\* the operations C34 speaks of: a successful deposit, a successful withdraw that
\* leaves shares, a distribute_interest (direct, or within a receive_repayment
\* that brings interest)
ShareValueOps ==
    \/ last'.op = "deposit" /\ last'.err = "Ok"
    \/ last'.op = "withdraw" /\ last'.err = "Ok" /\ total_shares' > 0
    \/ last'.op = "distribute_interest"
    \/ last'.op = "receive_repayment" /\ last'.err = "Ok" /\ last'.b > 0

\* C34: the value of a share never decreases for the holders who remain: for every
\* successful deposit, every successful withdraw that leaves total_shares > 0 and
\* every distribute_interest, from a state with total_shares > 0 and
\* total_liquidity > 0, total_liquidity' * total_shares >= total_liquidity *
\* total_shares'.
ShareValueStep ==
    (total_shares > 0 /\ total_liquidity > 0 /\ ShareValueOps)
    => total_liquidity' * total_shares >= total_liquidity * total_shares'

ShareValueKept == [][ShareValueStep]_vars

\* a provider left a pool whose shares are worth more than one token each, and
\* the other provider's shares remain
ShareValueKeptWitness ==
    /\ Called("withdraw")
    /\ total_shares > 0
    /\ total_liquidity > total_shares
    /\ \E p \in Providers : p # last.addr /\ lp_shares[p] > 0

\* C35: the ZeroTotalShares error of withdraw is unreachable: in every reachable
\* state a withdraw of shares > 0 by a provider whose balance is at least shares
\* finds total_shares > 0.
ZeroTotalSharesUnreached ==
    \A auth \in BOOLEAN, provider \in Providers, shares \in Amounts :
        /\ WithdrawErr(auth, provider, shares) # "ZeroTotalShares"
        /\ (shares > 0 /\ lp_shares[provider] >= shares) => total_shares > 0

ZeroTotalSharesStep == last'.err # "ZeroTotalShares"

ZeroTotalSharesUnreachable ==
    []ZeroTotalSharesUnreached /\ [][ZeroTotalSharesStep]_vars

\* a withdraw from a pool that was emptied is refused for the provider's balance,
\* before total_shares is looked at
ZeroTotalSharesUnreachableWitness ==
    /\ last.op = "withdraw"
    /\ last.err = "InsufficientShares"
    /\ total_shares = 0
    /\ total_liquidity > 0

\* C39: calculate_withdrawal agrees with withdraw: in every reachable state, for
\* every provider and every shares value for which withdraw(provider, shares)
\* would succeed, calculate_withdrawal(shares) returns exactly the amount that
\* withdraw returns; it returns 0 whenever total_shares = 0; and it changes no
\* state.
CalculationAgrees ==
    \A shares \in Amounts :
        /\ total_shares = 0 => CalculateWithdrawalResult(shares) = 0
        /\ \A provider \in Providers :
               WithdrawErr(TRUE, provider, shares) = "Ok"
               => CalculateWithdrawalResult(shares) =
                      AmountReturned(shares, total_liquidity, total_shares)

CalculationStep ==
    /\ (last'.op = "withdraw" /\ last'.err = "Ok")
           => /\ last'.ret = CalculateWithdrawalResult(last'.a)
              /\ balances'[last'.addr] =
                     balances[last'.addr] + CalculateWithdrawalResult(last'.a)
    /\ last'.op = "calculate_withdrawal"
           => /\ UNCHANGED storage
              /\ last'.err = "Ok"
              /\ last'.ret = CalculateWithdrawalResult(last'.a)
    /\ (Called("calculate_withdrawal") /\ last'.op = "withdraw" /\ last'.err = "Ok"
        /\ last'.a = last.a)
           => last'.ret = last.ret

CalculationMatchesWithdraw == []CalculationAgrees /\ [][CalculationStep]_vars

\* the worth of shares priced above one token each was asked for, and a provider
\* can withdraw that many
CalculationMatchesWithdrawWitness ==
    /\ Called("calculate_withdrawal")
    /\ last.a > 0
    /\ last.ret > last.a
    /\ \E provider \in Providers : WithdrawErr(TRUE, provider, last.a) = "Ok"

\* every stored amount is within the integer range
StoredInRange ==
    /\ Fits(total_shares)
    /\ Fits(total_liquidity)
    /\ Fits(locked_liquidity)
    /\ \A p \in Providers : Fits(lp_shares[p])

\* a deposit or withdraw that reaches its multiplication fails with Overflow when
\* the product is out of range, whatever the quotient would be
ProductChecked ==
    \A provider \in Providers, amount \in WideAmounts :
        /\ (total_shares # 0 /\ total_liquidity # 0
            /\ ~MulFits(amount, total_shares))
               => DepositErr(TRUE, provider, amount) = "Overflow"
        /\ (lp_shares[provider] >= amount /\ total_shares # 0
            /\ Fits(total_liquidity - locked_liquidity)
            /\ ~MulFits(amount, total_liquidity))
               => WithdrawErr(TRUE, provider, amount) = "Overflow"

\* an operation that reaches an addition to lp_shares, total_shares,
\* total_liquidity or locked_liquidity fails with Overflow when the sum is out of
\* range
SumChecked ==
    /\ \A provider \in Providers, amount \in WideAmounts :
           LET shares_issued ==
                   SharesIssued(amount, total_shares, total_liquidity)
           IN  (/\ SharesIssuedFits(amount, total_shares, total_liquidity)
                /\ shares_issued > 0
                /\ CanTransfer(balances, provider, amount)
                /\ \/ ~Fits(lp_shares[provider] + shares_issued)
                   \/ ~Fits(total_shares + shares_issued)
                   \/ ~Fits(total_liquidity + amount))
               => DepositErr(TRUE, provider, amount) = "Overflow"
    /\ \A amount \in WideAmounts :
           /\ FundLoanErr(TRUE, CREDITLINE, amount) = "Ok"
                  => Fits(locked_liquidity + amount)
           /\ (CanTransfer(balances, CREDITLINE, amount)
               /\ Fits(locked_liquidity - Min(amount, locked_liquidity))
               /\ ~Fits(total_liquidity + Min(amount, locked_liquidity)))
                  => ReceiveGuaranteeErr(TRUE, CREDITLINE, amount) = "Overflow"
           /\ (MulDivFits(amount, LP_FEE_BPS, TOTAL_BPS)
               /\ CanTransfer(balances, POOL, amount - LpAmount(amount))
               /\ ~Fits(total_liquidity + LpAmount(amount)))
                  => DistributeInterestErr(total_liquidity, balances, amount)
                         = "Overflow"
    /\ \A principal \in {1, 2} :
           (CanTransfer(balances, CREDITLINE, principal)
            /\ Fits(locked_liquidity - principal)
            /\ ~Fits(total_liquidity + principal))
               => ReceiveRepaymentErr(TRUE, CREDITLINE, principal, 0) = "Overflow"

\* an invocation that ends in Overflow leaves the storage and the balances as they
\* were, and a successful one stores what the unbounded arithmetic gives
OverflowStep ==
    /\ last'.err = "Overflow" => UNCHANGED storage
    /\ (last'.op = "deposit" /\ last'.err = "Ok")
           => /\ total_liquidity' = total_liquidity + last'.a
              /\ total_shares' = total_shares + last'.ret
              /\ lp_shares'[last'.addr] = lp_shares[last'.addr] + last'.ret
    /\ (last'.op = "withdraw" /\ last'.err = "Ok")
           => /\ total_shares' = total_shares - last'.a
              /\ total_liquidity' = total_liquidity - last'.ret

\* C40: no pool operation ever stores a wrapped value: deposit and withdraw fail
\* with Overflow whenever the intermediate product amount * total_shares
\* (respectively shares * total_liquidity) exceeds the integer range, even when the
\* final quotient would fit, and every addition to lp_shares, total_shares,
\* total_liquidity or locked_liquidity that would exceed the range fails with
\* Overflow; in each case the state is unchanged.
NoWrappedValue ==
    /\ [](StoredInRange /\ ProductChecked /\ SumChecked)
    /\ [][OverflowStep]_vars

\* a deposit into a pool of 32768 shares worth 65536 was refused with Overflow: the
\* product of 32768 and the shares is out of range though the shares to issue
\* would be half the amount
NoWrappedValueWitness ==
    /\ last.op = "deposit"
    /\ last.err = "Overflow"
    /\ total_shares = HALF_WIDTH
    /\ total_liquidity = 2 * HALF_WIDTH
    /\ ~MulFits(HALF_WIDTH, total_shares)
    /\ DepositErr(TRUE, "lp2", HALF_WIDTH) = "Overflow"

----------------------------------------------------------------------------
(* Properties of the Credit Line *)

ClCalled(op) == cl_last.op = op /\ cl_last.err = "Ok"

\* C14: successive successful create_loan calls return the loan ids 1, 2, 3, ...,
\* each one more than the previous successful one; a create_loan that fails
\* validation consumes no id, and no id is reused.
LoanIdsDense ==
    /\ DOMAIN loans = 1 .. loan_counter
    /\ \A id \in DOMAIN loans : loans[id].loan_id = id

LoanIdStep ==
    /\ (cl_last'.op = "create_loan" /\ cl_last'.err = "Ok")
           => /\ cl_last'.id = Cardinality(DOMAIN loans) + 1
              /\ cl_last'.id \notin DOMAIN loans
              /\ cl_last'.id = loan_counter + 1
              /\ loan_counter' = loan_counter + 1
              /\ \A id \in DOMAIN loans : loans'[id] = loans[id]
    /\ (cl_last'.op = "create_loan"
        /\ cl_last'.err \in {"InvalidAmount", "InsufficientGuarantee",
                              "InsufficientReputation"})
           => UNCHANGED <<loan_counter, loans>>
    /\ cl_last'.op # "create_loan" => UNCHANGED loan_counter

LoanIds == []LoanIdsDense /\ [][LoanIdStep]_vars

\* the second loan was created with id 2
LoanIdsWitness ==
    /\ ClCalled("create_loan")
    /\ cl_last.id = 2
    /\ loan_counter = 2
    /\ loans[1].borrower # loans[2].borrower

\* C15: create_loan succeeds exactly when total_amount > 0, guarantee_amount > 0,
\* guarantee_amount * 100 >= total_amount * 20 and the oracle reports a score of at
\* least 50; otherwise it fails with the first failing check of InvalidAmount,
\* InsufficientGuarantee, InsufficientReputation, an insufficient guarantee being
\* refused without the oracle being consulted, and stores no loan.
CreateLoanExpected(total_amount, guarantee_amount, score) ==
    IF ~(total_amount > 0 /\ guarantee_amount > 0) THEN "InvalidAmount"
    ELSE IF ~(guarantee_amount * 100 >= total_amount * 20) THEN "InsufficientGuarantee"
    ELSE IF ~(score >= 50) THEN "InsufficientReputation"
    ELSE "Ok"

CreateLoanOrder ==
    \A t \in TotalAmounts \cup {1, 5, 999, 1001},
       g \in GuaranteeAmounts \cup {1, 201},
       score \in Scores \cup {0} :
        /\ CreateLoanErr(t, g, score) = CreateLoanExpected(t, g, score)
        /\ CreateLoanExpected(t, g, score) \in {"InvalidAmount", "InsufficientGuarantee"}
               => ~CreateLoanQueries(t, g)

CreateLoanStep ==
    /\ (cl_last'.op = "create_loan" /\ cl_last'.err # "Ok") => loans' = loans
    /\ (cl_last'.op = "create_loan"
        /\ cl_last'.err \in {"InvalidAmount", "InsufficientGuarantee"})
           => ~cl_last'.queried
    /\ (cl_last'.op = "create_loan" /\ cl_last'.err = "Ok")
           => LET loan == loans'[cl_last'.id]
              IN  /\ cl_last'.queried
                  /\ loan.total_amount > 0
                  /\ loan.guarantee_amount > 0
                  /\ loan.guarantee_amount * 100 >= loan.total_amount * 20
                  /\ loan.status = "Active"
                  /\ loan.remaining_balance = loan.total_amount
                  /\ loan.created_at = now

MarkDefaultedExpected(loan_id) ==
    IF loan_id \notin DOMAIN loans THEN "LoanNotFound"
    ELSE IF loans[loan_id].status # "Active" THEN "LoanNotActive"
    ELSE LET schedule == loans[loan_id].repayment_schedule
         IN  IF ~(now > schedule[Len(schedule)].due_date)
             THEN "LoanNotOverdue"
             ELSE "Ok"

MarkDefaultedOrder ==
    \A loan_id \in 1 .. MaxLoans + 1 :
        /\ MarkDefaultedErr(loan_id, TRUE) = MarkDefaultedExpected(loan_id)
        /\ MarkDefaultedErr(loan_id, FALSE) = "Ok" => MarkDefaultedExpected(loan_id) = "Ok"

MarkDefaultedStep ==
    /\ (cl_last'.op = "mark_defaulted" /\ cl_last'.err = "Ok")
           => LET loan_id == cl_last'.id
                  schedule == loans[loan_id].repayment_schedule
              IN  /\ loan_id \in DOMAIN loans
                  /\ loans[loan_id].status = "Active"
                  /\ now > schedule[Len(schedule)].due_date
                  /\ loans'[loan_id].status = "Defaulted"
    /\ \A loan_id \in DOMAIN loans :
           (loans[loan_id].status # "Defaulted" /\ loans'[loan_id].status = "Defaulted")
           => /\ cl_last'.op = "mark_defaulted"
              /\ cl_last'.err = "Ok"
              /\ cl_last'.id = loan_id

MarkDefaultedGuard == []MarkDefaultedOrder /\ [][MarkDefaultedStep]_vars

\* a loan of two installments was defaulted once the ledger passed the due date of
\* the last one, while another loan whose first installment is past due stays
\* Active because its last one is due now
MarkDefaultedGuardWitness ==
    /\ ClCalled("mark_defaulted")
    /\ Len(loans[cl_last.id].repayment_schedule) = 2
    /\ loans[cl_last.id].status = "Defaulted"
    /\ \E other \in DOMAIN loans :
           /\ loans[other].status = "Active"
           /\ loans[other].repayment_schedule[1].due_date < now
           /\ LastDueDate(loans[other].repayment_schedule) = now
           /\ MarkDefaultedErr(other, TRUE) = "LoanNotOverdue"

\* C17: loan status is monotonic: a loan starts Active, the only transition is
\* Active to Defaulted, a Defaulted or Paid loan never changes status again, and a
\* second mark_defaulted on the same loan fails with LoanNotActive.
StatusTerminal ==
    \A loan_id \in DOMAIN loans :
        /\ loans[loan_id].status \in {"Active", "Defaulted", "Paid"}
        /\ loans[loan_id].status \in {"Defaulted", "Paid"}
               => \A slash_ok \in BOOLEAN :
                      MarkDefaultedErr(loan_id, slash_ok) = "LoanNotActive"

StatusStep ==
    /\ \A loan_id \in DOMAIN loans' \ DOMAIN loans : loans'[loan_id].status = "Active"
    /\ \A loan_id \in DOMAIN loans :
           /\ loan_id \in DOMAIN loans'
           /\ loans'[loan_id].status # loans[loan_id].status
                  => /\ loans[loan_id].status = "Active"
                     /\ loans'[loan_id].status = "Defaulted"
           /\ loans[loan_id].status \in {"Defaulted", "Paid"}
                  => loans'[loan_id].status = loans[loan_id].status

StatusMonotonic == []StatusTerminal /\ [][StatusStep]_vars

\* a second mark_defaulted on a defaulted loan was refused
StatusMonotonicWitness ==
    /\ cl_last.op = "mark_defaulted"
    /\ cl_last.err = "LoanNotActive"
    /\ \E loan_id \in DOMAIN loans : loans[loan_id].status = "Defaulted"

\* C18: a successful mark_defaulted(loan_id) changes only the status of that loan:
\* its other fields, every other loan's record and the loan counter are unchanged.
DefaultFrameStep ==
    (cl_last'.op = "mark_defaulted" /\ cl_last'.err = "Ok")
        => LET loan_id == cl_last'.id
           IN  /\ DOMAIN loans' = DOMAIN loans
               /\ loans'[loan_id].loan_id = loans[loan_id].loan_id
               /\ loans'[loan_id].borrower = loans[loan_id].borrower
               /\ loans'[loan_id].merchant = loans[loan_id].merchant
               /\ loans'[loan_id].total_amount = loans[loan_id].total_amount
               /\ loans'[loan_id].guarantee_amount = loans[loan_id].guarantee_amount
               /\ loans'[loan_id].remaining_balance = loans[loan_id].remaining_balance
               /\ loans'[loan_id].repayment_schedule = loans[loan_id].repayment_schedule
               /\ loans'[loan_id].created_at = loans[loan_id].created_at
               /\ \A other \in DOMAIN loans \ {loan_id} : loans'[other] = loans[other]
               /\ loan_counter' = loan_counter

DefaultFrame == [][DefaultFrameStep]_vars

\* the first of two loans of different borrowers was defaulted, the second is Active
DefaultFrameWitness ==
    /\ ClCalled("mark_defaulted")
    /\ cl_last.id = 1
    /\ loan_counter = 2
    /\ loans[1].status = "Defaulted"
    /\ loans[1].remaining_balance = 1000
    /\ loans[2].status = "Active"
    /\ loans[2].borrower # loans[1].borrower

\* the outcomes of mark_defaulted that come before the oracle is called
RefusedBeforeSlash == {"LoanNotFound", "LoanNotActive", "LoanNotOverdue"}

\* C36: Reputation's slash(borrower) is invoked exactly once for each loan that
\* becomes Defaulted, in the invocation that takes the loan from Active to
\* Defaulted and with that loan's borrower; create_loan and a mark_defaulted that
\* fails with LoanNotFound, LoanNotActive or LoanNotOverdue never invoke it (their
\* outcome does not depend on what slash would do), and if the slash fails the
\* loan remains Active.
SlashReached ==
    \A loan_id \in 1 .. MaxLoans + 1 :
        /\ MarkDefaultedErr(loan_id, TRUE) \in RefusedBeforeSlash
               => MarkDefaultedErr(loan_id, FALSE) = MarkDefaultedErr(loan_id, TRUE)
        /\ MarkDefaultedErr(loan_id, TRUE) = "Ok"
               => MarkDefaultedErr(loan_id, FALSE) = "SlashFailed"

SlashStep ==
    /\ \A loan_id \in DOMAIN loans :
           (loans[loan_id].status = "Active" /\ loans'[loan_id].status = "Defaulted")
           <=> /\ cl_last'.op = "mark_defaulted"
               /\ cl_last'.id = loan_id
               /\ cl_last'.slashed = loans[loan_id].borrower
    /\ cl_last'.slashed # None
           => /\ cl_last'.op = "mark_defaulted"
              /\ cl_last'.err = "Ok"
              /\ cl_last'.id \in DOMAIN loans
    /\ cl_last'.op = "create_loan" => cl_last'.slashed = None
    /\ (cl_last'.op = "mark_defaulted" /\ cl_last'.err # "Ok")
           => cl_last'.slashed = None /\ loans' = loans
    /\ \A loan_id \in DOMAIN loans :
           loans[loan_id].status = "Defaulted" => loans'[loan_id].status = "Defaulted"

SlashOncePerDefault == []SlashReached /\ [][SlashStep]_vars

\* the second loan was defaulted and its borrower slashed; the first loan, of
\* another borrower, is Active
SlashOncePerDefaultWitness ==
    /\ ClCalled("mark_defaulted")
    /\ cl_last.id = 2
    /\ cl_last.slashed = loans[2].borrower
    /\ loans[2].status = "Defaulted"
    /\ loans[1].status = "Active"
    /\ loans[1].borrower # loans[2].borrower

\* C37: the two forms of create_loan's guarantee check accept exactly the same
\* inputs: for all total_amount > 0 and guarantee_amount > 0, guarantee_amount >=
\* floor(total_amount * 20 / 100) if and only if guarantee_amount * 100 >=
\* total_amount * 20.
GuaranteeFormsAgree ==
    guarantee_check.asked => (guarantee_check.by_floor <=> guarantee_check.by_product)

\* the guarantee is exactly the rounded-down minimum share of a total that is not
\* a multiple of 5
AtRoundedFloor ==
    /\ guarantee_check.total_amount % 5 # 0
    /\ guarantee_check.guarantee_amount =
           (guarantee_check.total_amount * MIN_GUARANTEE_PERCENT) \div 100

\* C37, amended: every input the product form accepts the floor form accepts, and
\* the two forms differ on exactly one kind of input: a guarantee_amount equal to
\* floor(total_amount * 20 / 100) for a total_amount that is not a multiple of 5,
\* which the floor form accepts and the product form refuses.
GuaranteeFormsDiffer ==
    guarantee_check.asked
    => /\ guarantee_check.by_product => guarantee_check.by_floor
       /\ (guarantee_check.by_floor /\ ~guarantee_check.by_product) <=> AtRoundedFloor

\* a guarantee of 1 for a total of 9: the floor form accepts, the product form
\* refuses
GuaranteeFormsDifferWitness ==
    /\ guarantee_check.asked
    /\ guarantee_check.total_amount = 9
    /\ guarantee_check.guarantee_amount = 1
    /\ guarantee_check.by_floor
    /\ ~guarantee_check.by_product

\* C38: every loan stored by create_loan has a repayment schedule of at least one
\* installment, so that mark_defaulted always has a last installment to compare
\* with the current time; create_loan never stores a loan with an empty schedule.
ScheduleNonEmpty ==
    \A loan_id \in DOMAIN loans : Len(loans[loan_id].repayment_schedule) >= 1

----------------------------------------------------------------------------
(* Properties of the Reputation contract *)

ScoreOps == {"set_score", "increase_score", "decrease_score"}

\* C26: every user's score stays within [0,100]: set_score above 100 fails with
\* error 3, an increase that would exceed 100 with error 4 and a decrease that
\* would go below 0 with error 5, each leaving the stored score unchanged rather
\* than clamping it; a user never scored reads as 0.
ScoreBounds ==
    \A user \in Borrowers :
        /\ GetScore(user) >= 0
        /\ GetScore(user) <= 100
        /\ user \notin DOMAIN scores => GetScore(user) = 0

ScoreRefused ==
    \A updater \in updaters, user \in Borrowers :
        /\ \A new_score \in ScoreArgs :
               RepErrorCode(SetScoreErr(TRUE, updater, user, new_score)) =
                   (IF new_score > 100 THEN 3 ELSE 0)
        /\ \A amount \in ScoreAmounts :
               /\ RepErrorCode(IncreaseScoreErr(TRUE, updater, user, amount)) =
                      (IF GetScore(user) + amount > 100 THEN 4 ELSE 0)
               /\ RepErrorCode(DecreaseScoreErr(TRUE, updater, user, amount)) =
                      (IF GetScore(user) - amount < 0 THEN 5 ELSE 0)

ScoreStep ==
    /\ (rep_last'.op \in ScoreOps /\ rep_last'.err # "Ok")
           => /\ scores' = scores
              /\ \A user \in Borrowers : GetScore(user)' = GetScore(user)
    /\ (rep_last'.op \in ScoreOps /\ rep_last'.err = "Ok")
           => \A user \in Borrowers :
                  GetScore(user)' =
                      IF user # rep_last'.user THEN GetScore(user)
                      ELSE IF rep_last'.op = "set_score" THEN rep_last'.arg
                      ELSE IF rep_last'.op = "increase_score"
                           THEN GetScore(user) + rep_last'.arg
                      ELSE GetScore(user) - rep_last'.arg

ScoreRange == [](ScoreBounds /\ ScoreRefused) /\ [][ScoreStep]_vars

\* an increase of a score of 80 was refused for passing the maximum, while the
\* other user was never scored
ScoreRangeWitness ==
    /\ rep_last.op = "increase_score"
    /\ rep_last.err = "Overflow"
    /\ \E user \in Borrowers : GetScore(user) = 80
    /\ \E user \in Borrowers : user \notin DOMAIN scores

\* C27: a score changes only through a call by an address that holds the updater
\* role, and the role is granted or revoked only by the current admin: after
\* set_updater(admin, u, false) every score update by u fails with error 2 while
\* the other updaters keep working, and after the admin is replaced the old
\* admin's set_updater calls fail with error 1 while the scores and the updater
\* grants are preserved.
RoleRefused ==
    /\ \A updater \in UpdaterArgs \ updaters, user \in Borrowers :
           /\ \A new_score \in ScoreArgs :
                  RepErrorCode(SetScoreErr(TRUE, updater, user, new_score)) = 2
           /\ \A amount \in ScoreAmounts :
                  /\ RepErrorCode(IncreaseScoreErr(TRUE, updater, user, amount)) = 2
                  /\ RepErrorCode(DecreaseScoreErr(TRUE, updater, user, amount)) = 2
    /\ \A updater \in updaters, user \in Borrowers :
           /\ SetScoreErr(TRUE, updater, user, 50) = "Ok"
           /\ IncreaseScoreErr(TRUE, updater, user, 0) = "Ok"
           /\ DecreaseScoreErr(TRUE, updater, user, 0) = "Ok"
    /\ \A caller \in AdminArgs :
           RepErrorCode(SetUpdaterErr(TRUE, caller)) =
               (IF caller = rep_admin THEN 0 ELSE 1)

RoleStep ==
    /\ scores' # scores
           => /\ rep_last'.op \in ScoreOps
              /\ rep_last'.err = "Ok"
              /\ rep_last'.caller \in updaters
    /\ updaters' # updaters
           => /\ rep_last'.op = "set_updater"
              /\ rep_last'.err = "Ok"
              /\ rep_last'.caller = rep_admin
    /\ (rep_last'.op = "set_updater" /\ rep_last'.err = "Ok")
           => /\ rep_last'.caller = rep_admin
              /\ updaters' = IF rep_last'.arg = 1
                             THEN updaters \cup {rep_last'.user}
                             ELSE updaters \ {rep_last'.user}
              /\ UNCHANGED <<scores, rep_admin>>
    /\ (rep_last'.op = "set_admin" /\ rep_last'.err = "Ok")
           => /\ UNCHANGED <<scores, updaters>>
              /\ \A caller \in AdminArgs :
                     (caller = rep_admin /\ caller # rep_admin')
                     => RepErrorCode(SetUpdaterErr(TRUE, caller))' = 1

----------------------------------------------------------------------------
(* Properties of the Merchant Registry *)

MrCalled(op) == mr_last.op = op /\ mr_last.err = "Ok"

\* C28: get_merchant_count is the number of distinct registered merchant
\* addresses: register_merchant succeeds only for an initialized contract, a caller
\* equal to the stored admin, an address not yet registered and a name of length
\* 1 to 64, and then adds the merchant as active with total_sales 0 and raises the
\* count by one; a duplicate, invalid-name or non-admin registration changes
\* neither the records nor the count, and nothing removes a merchant or lowers
\* the count.
MerchantCountExact == GetMerchantCount = Cardinality(DOMAIN merchants)

RegisterAccepted ==
    \A auth \in BOOLEAN, caller \in AdminArgs, merchant \in MerchantArgs,
       name \in MerchantNames :
        (RegisterMerchantErr(auth, caller, merchant, name) = "Ok")
        <=> /\ auth
            /\ mr_admin # None
            /\ caller = mr_admin
            /\ merchant \notin DOMAIN merchants
            /\ Len(name) >= 1
            /\ Len(name) <= 64

RegisterStep ==
    /\ (mr_last'.op = "register_merchant" /\ mr_last'.err = "Ok")
           => LET merchant == mr_last'.merchant
              IN  /\ merchant \notin DOMAIN merchants
                  /\ DOMAIN merchants' = DOMAIN merchants \cup {merchant}
                  /\ merchants'[merchant].active
                  /\ merchants'[merchant].total_sales = 0
                  /\ merchants'[merchant].registration_date = now
                  /\ Len(merchants'[merchant].name) \in 1 .. 64
                  /\ \A m \in DOMAIN merchants : merchants'[m] = merchants[m]
                  /\ GetMerchantCount' = GetMerchantCount + 1
    /\ (mr_last'.op = "register_merchant" /\ mr_last'.err # "Ok")
           => UNCHANGED <<merchants, merchant_count, mr_admin>>
    /\ DOMAIN merchants \subseteq DOMAIN merchants'
    /\ GetMerchantCount' >= GetMerchantCount
    /\ GetMerchantCount' # GetMerchantCount
           => mr_last'.op = "register_merchant" /\ mr_last'.err = "Ok"

MerchantCount ==
    [](MerchantCountExact /\ RegisterAccepted) /\ [][RegisterStep]_vars

\* a second registration of an address was refused after both merchants had been
\* registered and one deactivated
MerchantCountWitness ==
    /\ mr_last.op = "register_merchant"
    /\ mr_last.err = "MerchantAlreadyRegistered"
    /\ GetMerchantCount = 2
    /\ \E m \in MerchantArgs : ~IsActive(m)

\* C29: is_active is false for an unregistered address and true right after
\* registration; deactivate_merchant and activate_merchant by the admin set the
\* flag to false and true (repeating either changes nothing), fail with
\* MerchantNotFound for an unregistered address, and leave the merchant's name,
\* registration_date and total_sales, every other merchant and the count unchanged.
ActiveRefused ==
    \A merchant \in MerchantArgs :
        merchant \notin DOMAIN merchants
        => /\ ~IsActive(merchant)
           /\ mr_admin # None
                  => SetActiveErr(TRUE, mr_admin, merchant) = "MerchantNotFound"

ActiveOps == {"deactivate_merchant", "activate_merchant"}

ActiveStep ==
    /\ (mr_last'.op = "register_merchant" /\ mr_last'.err = "Ok")
           => /\ mr_last'.merchant \in DOMAIN merchants'
              /\ merchants'[mr_last'.merchant].active
    /\ (mr_last'.op \in ActiveOps /\ mr_last'.err = "Ok")
           => LET merchant == mr_last'.merchant
                  flag == (mr_last'.op = "activate_merchant")
              IN  /\ merchant \in DOMAIN merchants
                  /\ merchants'[merchant].active = flag
                  /\ DOMAIN merchants' = DOMAIN merchants
                  /\ merchants'[merchant].name = merchants[merchant].name
                  /\ merchants'[merchant].registration_date =
                         merchants[merchant].registration_date
                  /\ merchants'[merchant].total_sales =
                         merchants[merchant].total_sales
                  /\ \A m \in DOMAIN merchants \ {merchant} :
                         merchants'[m] = merchants[m]
                  /\ IsActive(merchant) = flag => merchants' = merchants
                  /\ UNCHANGED <<merchant_count, mr_admin>>
    /\ (mr_last'.op \in ActiveOps /\ mr_last'.err # "Ok")
           => UNCHANGED <<merchants, merchant_count, mr_admin>>

ActiveFlag == []ActiveRefused /\ [][ActiveStep]_vars

\* a merchant registered at an earlier time was deactivated while the other
\* merchant stays active
ActiveFlagWitness ==
    /\ MrCalled("deactivate_merchant")
    /\ ~IsActive(mr_last.merchant)
    /\ merchants[mr_last.merchant].registration_date < now
    /\ GetMerchantCount = 2
    /\ \E m \in MerchantArgs : IsActive(m)

====
